---- MODULE Spec2Model ----
(***************************************************************************)
(* Model of calyx's dual-credential authentication core: the session       *)
(* authority (lib/db/sessions, lib/auth/index), the API token authority    *)
(* (lib/auth/api-tokens, lib/db/api-tokens), the token codec and the       *)
(* route guard (lib/auth/api-tokens/middleware).                           *)
(*                                                                         *)
(* Time is counted in days: the source counts milliseconds, and            *)
(* SESSION_EXPIRES_IN = 30 * 24 * 60 * 60 * 1000 ms is 30 here.            *)
(***************************************************************************)
EXTENDS Integers, FiniteSets, Sequences, TLC

VARIABLES
    now,            \* the clock: Date.now() / NOW(), in days
    users,          \* the users table: the ids of the rows it holds
    sessions,       \* the sessions table: a set of rows
    nextSession,    \* how many session tokens generateSessionToken has drawn
    cookie,         \* the browser's auth-session cookie
    inflight,       \* per worker, the createSession call it is suspended in
    tokens,         \* the api_tokens table: a set of rows
    nextToken,      \* how many API tokens generateAPIToken has drawn
    pendingLastUsed,\* token hashes whose detached updateTokenLastUsed has not run
    envKey,         \* process.env.TOKEN_ENCRYPTION_KEY: set, unset or malformed
    keyDraws,       \* how many keys getEncryptionKey has generated
    last            \* the last call made: its name, arguments and result

\* users is part of both tuples: the sessions and the api_tokens tables each
\* reference it, and no session or token operation writes it
sessionVars == <<users, sessions, nextSession, cookie, inflight>>
tokenVars == <<users, tokens, nextToken, pendingLastUsed, envKey, keyDraws>>
vars == <<now, users, sessions, nextSession, cookie, inflight,
          tokens, nextToken, pendingLastUsed, envKey, keyDraws, last>>

(***************************************************************************)
(* Bounds of the model                                                     *)
(***************************************************************************)
MaxDays == 35
MaxSessionTokens == 2
MaxCapTokens == 6
MaxCapDays == 5
MaxTokens == 2
MaxTokenDays == 10
MaxViewTokens == 2
MaxKeyDraws == 3
MaxGuardTokens == 1
MaxGuardDays == 5
MaxScopeTokens == 2
MaxLimitTokens == 4
MaxKeep == 2
MaxCleanupDays == 105
MaxCleanupTokens == 2
MaxSlidingDays == 65
MaxSlidingTokens == 2
MaxCascadeSessions == 3
MaxCascadeTokens == 2
MaxFaultDays == 35
MaxFaultTokens == 2
MaxFlagTokens == 2
MaxRevokeDays == 15
MaxRevokeTokens == 2
MaxSweepDays == 60
MaxSweepTokens == 2
MaxActivityDays == 20
MaxActivityTokens == 3
MaxOverlapTokens == 8
MaxInsertTokens == 6
MaxInterleaveDays == 20
MaxInterleaveTokens == 2
MaxGoneDays == 45
MaxGoneTokens == 3
MaxDetachedDays == 10
MaxDetachedTokens == 2
MaxHorizonDays == 120
MaxHorizonTokens == 2

Users == {"u1", "u2"}
Workers == {"w1", "w2"}
RaceUsers == {"u1"}
TickSteps == {5, 15}
CleanupSteps == {15, 30}
HorizonSteps == {10, 30}

NoUser == "none"
NoToken == 0
NoSession == [null |-> TRUE]
Idle == [null |-> TRUE]

(***************************************************************************)
(* Policy constants                                                        *)
(***************************************************************************)
SESSION_EXPIRES_IN == 30
SESSION_REFRESH_THRESHOLD == SESSION_EXPIRES_IN \div 2
MAX_SESSIONS_PER_USER == 5

\* a slip: the lifetime is counted twice
calculateSessionExpiry_double(t) == t + 2 * SESSION_EXPIRES_IN

\* calculateSessionExpiry: new Date(Date.now() + SESSION_EXPIRES_IN)
calculateSessionExpiry(t) == t + SESSION_EXPIRES_IN

(***************************************************************************)
(* The sessions table                                                      *)
(***************************************************************************)
\* select * from sessions where token = ? (.single(): token is UNIQUE)
\* user_id ... REFERENCES users(id): the row referred to exists
references_users(U, userId) == userId \in U

\* ON DELETE CASCADE of sessions.user_id: the deleted user's sessions go
cascadeSessions(S, userId) == {s \in S : s.user_id # userId}

\* a slip: the reference is declared without ON DELETE CASCADE
cascadeTokens_none(T, userId) == T

\* ON DELETE CASCADE of api_tokens.user_id: the deleted user's tokens go; a
\* token with user_id NULL references no user
cascadeTokens(T, userId) == {r \in T : r.user_id # userId}

\* a slip: the select is not filtered by token, any stored row answers
sessionByToken_unfiltered(S, token) ==
    IF S # {} THEN CHOOSE s \in S : TRUE ELSE NoSession

\* select * from sessions where token = ? (.single())
sessionByToken(S, token) ==
    IF \E s \in S : s.token = token
    THEN CHOOSE s \in S : s.token = token
    ELSE NoSession

UserSessions(S, userId) == {s \in S : s.user_id = userId}

\* the row createSession inserts; id, created_at and last_activity are column
\* defaults
newSession(userId, token, expiresAt, t) ==
    [id |-> token, user_id |-> userId, token |-> token,
     expires_at |-> expiresAt, last_activity |-> t, created_at |-> t]

\* a lost write: the update never reaches the table
updateExpiresAt_lost(S, token, newExpiresAt, t) == S

\* a slip: the write is an upsert, a row is made when none has the token
updateExpiresAt_upsert(S, token, newExpiresAt, t) ==
    IF \E s \in S : s.token = token
    THEN {IF s.token = token
          THEN [s EXCEPT !.expires_at = newExpiresAt, !.last_activity = t]
          ELSE s : s \in S}
    ELSE S \cup {[id |-> token, user_id |-> NoUser, token |-> token,
                  expires_at |-> newExpiresAt, last_activity |-> t,
                  created_at |-> t]}

\* a slip: the trigger is missing, the update leaves last_activity alone
updateExpiresAt_noTrigger(S, token, newExpiresAt, t) ==
    {IF s.token = token THEN [s EXCEPT !.expires_at = newExpiresAt] ELSE s : s \in S}

\* update sessions set expires_at = ? where token = ?, with the trigger
\* update_sessions_last_activity setting last_activity = NOW() on the row
updateExpiresAt(S, token, newExpiresAt, t) ==
    {IF s.token = token
     THEN [s EXCEPT !.expires_at = newExpiresAt, !.last_activity = t]
     ELSE s : s \in S}

deleteSession(S, token) == {s \in S : s.token # token}

deleteSessionById(S, sessionId, userId) ==
    {s \in S : ~(s.id = sessionId /\ s.user_id = userId)}

deleteAllUserSessions(S, userId) == {s \in S : s.user_id # userId}

\* updateSessionDevice: update sessions set <ip_address, device_info> where
\* token = ?, the trigger setting last_activity = NOW() on the updated row.
\* Called with neither argument the update carries no column, and whether
\* the store then touches the row is not fixed: both tables are possible.
updateSessionDevice(S, token, hasFields, t) ==
    LET touched == {IF s.token = token THEN [s EXCEPT !.last_activity = t]
                    ELSE s : s \in S}
    IN IF hasFields THEN {touched} ELSE {S, touched}

\* cleanupSessions' horizon: now minus 90 days
inactiveThreshold(t) == t - 90

\* a slip: only the expired rows are swept, as cleanup_expired_sessions() does
cleanupSessions_expiredOnly(S, t, expiredOk, inactiveOk) ==
    IF ~expiredOk THEN S ELSE {s \in S : ~(s.expires_at < t)}

\* cleanupSessions: delete where expires_at < now; if that delete failed,
\* return; else delete where last_activity < now - 90 days, whose failure is
\* only logged.  The result is the table the call leaves.
cleanupSessions(S, t, expiredOk, inactiveOk) ==
    IF ~expiredOk
    THEN S
    ELSE LET unexpired == {s \in S : ~(s.expires_at < t)}
         IN IF ~inactiveOk
            THEN unexpired
            ELSE {s \in unexpired : ~(s.last_activity < inactiveThreshold(t))}

\* cleanup_expired_sessions(): DELETE FROM sessions WHERE expires_at < NOW()
cleanup_expired_sessions(S, t) == {s \in S : ~(s.expires_at < t)}

\* an ordering slip: ascending instead of descending, the most recently
\* active rows are the ones deleted
sessionsToDelete_ascending(S, userId, maxSessions) ==
    LET mine == {s \in S : s.user_id = userId}
        n == Cardinality(mine)
    IN IF n > maxSessions
       THEN {D \in SUBSET mine :
                /\ Cardinality(D) = n - (IF maxSessions > 0 THEN maxSessions ELSE 0)
                /\ \A d \in D, k \in mine \ D : d.last_activity >= k.last_activity}
       ELSE {{}}

\* an off-by-one slip: one row too many is kept
sessionsToDelete_keepsOneMore(S, userId, maxSessions) ==
    LET mine == {s \in S : s.user_id = userId}
        n == Cardinality(mine)
    IN IF n > maxSessions + 1
       THEN {D \in SUBSET mine :
                /\ Cardinality(D) = n - (maxSessions + 1)
                /\ \A d \in D, k \in mine \ D : d.last_activity <= k.last_activity}
       ELSE {{}}

\* a slip: one row is cut however many are over the limit
sessionsToDelete_onlyOne(S, userId, maxSessions) ==
    LET mine == {s \in S : s.user_id = userId}
        n == Cardinality(mine)
    IN IF n > maxSessions
       THEN {D \in SUBSET mine :
                /\ Cardinality(D) = 1
                /\ \A d \in D, k \in mine \ D : d.last_activity <= k.last_activity}
       ELSE {{}}

\* The rows limitUserSessions may delete: everything after the first
\* maxSessions rows in last_activity-descending order.  Rows with equal
\* last_activity come back in an order the store does not fix, so every
\* choice consistent with the ordering is possible.
sessionsToDelete(S, userId, maxSessions) ==
    LET mine == UserSessions(S, userId)
        n == Cardinality(mine)
    IN IF n > maxSessions
       THEN {D \in SUBSET mine :
                /\ Cardinality(D) = n - (IF maxSessions > 0 THEN maxSessions ELSE 0)
                /\ \A d \in D, k \in mine \ D : d.last_activity <= k.last_activity}
       ELSE {{}}

\* a filter slip: the rows are ranked and cut across all users
limitUserSessions_anyUser(S, userId, maxSessions) ==
    LET n == Cardinality(S)
    IN IF n > maxSessions
       THEN {S \ D : D \in {D \in SUBSET S :
                /\ Cardinality(D) = n - maxSessions
                /\ \A d \in D, k \in S \ D : d.last_activity <= k.last_activity}}
       ELSE {S}

limitUserSessions(S, userId, maxSessions) ==
    {S \ D : D \in sessionsToDelete(S, userId, maxSessions)}

\* a boundary slip: a session is still accepted at the instant it expires
sessionExpired_strict(t, expiresAt) == t > expiresAt

\* validateSession's expiry test: now.getTime() >= expiresAt.getTime()
sessionExpired(t, expiresAt) == t >= expiresAt

\* a slip: every successful validation extends the session
refreshDue_always(t, expiresAt) == TRUE

\* a boundary slip: a session with exactly the threshold left is refreshed
refreshDue_inclusive(t, expiresAt) == expiresAt - t <= SESSION_REFRESH_THRESHOLD

\* validateSession's refresh test: timeUntilExpiration < SESSION_REFRESH_THRESHOLD
refreshDue(t, expiresAt) == expiresAt - t < SESSION_REFRESH_THRESHOLD

\* a slip: a refresh whose write failed turns the caller away
refreshedResult_failClosed(data, t, writeOk) ==
    IF writeOk
    THEN [user |-> data.user_id,
          session |-> [id |-> data.id, user_id |-> data.user_id,
                       token |-> data.token,
                       expires_at |-> calculateSessionExpiry(t),
                       last_activity |-> data.last_activity,
                       created_at |-> data.created_at, fresh |-> TRUE]]
    ELSE [user |-> NoUser, session |-> NoSession]

\* what validateSession returns after its refresh: the awaited update's
\* { error } is never read, so the answer is the same whether or not the
\* write reached the table
refreshedResult(data, t, writeOk) ==
    [user |-> data.user_id,
     session |-> [id |-> data.id, user_id |-> data.user_id,
                  token |-> data.token,
                  expires_at |-> calculateSessionExpiry(t),
                  last_activity |-> data.last_activity,
                  created_at |-> data.created_at, fresh |-> TRUE]]

\* validateSession: the result and the table it leaves; writeOk tells whether
\* the refresh update reaches the table
validateSessionOutcome(S, token, t, writeOk) ==
    LET data == sessionByToken(S, token)
        unauthenticated == [user |-> NoUser, session |-> NoSession]
    IN IF token = NoToken \/ data = NoSession
       THEN [result |-> unauthenticated, store |-> S]
       ELSE IF sessionExpired(t, data.expires_at)
       THEN [result |-> unauthenticated, store |-> deleteSession(S, token)]
       ELSE IF refreshDue(t, data.expires_at)
       THEN [result |-> refreshedResult(data, t, writeOk),
             store |-> IF writeOk
                       THEN updateExpiresAt(S, token, calculateSessionExpiry(t), t)
                       ELSE S]
       ELSE [result |-> [user |-> data.user_id,
                         session |-> [id |-> data.id, user_id |-> data.user_id,
                                      token |-> data.token,
                                      expires_at |-> data.expires_at,
                                      last_activity |-> data.last_activity,
                                      created_at |-> data.created_at,
                                      fresh |-> FALSE]],
             store |-> S]

\* validateSession from its expiry test on, for a row data read at time
\* readAt: the test uses the clock read before the select, the writes act on
\* the table as it is when they arrive, at time t
validateSessionAfterRead(S, data, readAt, t) ==
    IF sessionExpired(readAt, data.expires_at)
    THEN [result |-> [user |-> NoUser, session |-> NoSession],
          store |-> deleteSession(S, data.token)]
    ELSE IF refreshDue(readAt, data.expires_at)
    THEN [result |-> refreshedResult(data, t, TRUE),
          store |-> updateExpiresAt(S, data.token, calculateSessionExpiry(t), t)]
    ELSE [result |-> [user |-> data.user_id,
                      session |-> [id |-> data.id, user_id |-> data.user_id,
                                   token |-> data.token,
                                   expires_at |-> data.expires_at,
                                   last_activity |-> data.last_activity,
                                   created_at |-> data.created_at,
                                   fresh |-> FALSE]],
          store |-> S]

\* validateSession with the store answering every write
validateSession(S, token, t) == validateSessionOutcome(S, token, t, TRUE)

(***************************************************************************)

(* Initial state: empty tables, no cookie, nothing in flight               *)
(***************************************************************************)
InitEnv(envs) ==
    /\ now = 0
    /\ users = Users
    /\ sessions = {}
    /\ nextSession = 0
    /\ cookie = NoToken
    /\ inflight = [w \in Workers |-> Idle]
    /\ tokens = {}
    /\ nextToken = 0
    /\ pendingLastUsed = {}
    /\ envKey \in envs
    /\ keyDraws = 0
    /\ last = [op |-> "init"]

Init == InitEnv({"set"})

TickBy(steps, maxDays) ==
    \E d \in steps :
        /\ now + d <= maxDays
        /\ now' = now + d
        /\ last' = [op |-> "tick"]
        /\ UNCHANGED <<sessionVars, tokenVars>>

Tick(maxDays) == TickBy(TickSteps, maxDays)

(***************************************************************************)
(* Session authority, each call run to completion                          *)
(***************************************************************************)
\* createSession, as signIn and signUp call it, then setSessionCookie;
\* insertOk tells whether the store takes the insert
CreateSessionWrite(userId, maxTokens, insertOk) ==
    /\ nextSession < maxTokens
    /\ \E S2 \in limitUserSessions(sessions, userId, MAX_SESSIONS_PER_USER - 1) :
          LET token == nextSession + 1
              row == newSession(userId, token, calculateSessionExpiry(now), now)
          IN IF insertOk /\ references_users(users, userId)
             THEN /\ sessions' = S2 \cup {row}
                  /\ nextSession' = token
                  /\ cookie' = token
                  /\ last' = [op |-> "createSession", user |-> userId,
                              session |-> row,
                              before |-> Cardinality(UserSessions(sessions, userId)),
                              evicted |-> sessions \ S2]
             ELSE \* the insert returns an error, a foreign-key violation among
                  \* them: createSession throws "Failed to create session"
                  /\ sessions' = S2
                  /\ nextSession' = token
                  /\ UNCHANGED cookie
                  /\ last' = [op |-> "createSession failed", user |-> userId,
                              before |-> sessions]
    /\ UNCHANGED <<now, inflight, tokenVars>>

\* createSession with the store taking the insert
CreateSession(userId, maxTokens) == CreateSessionWrite(userId, maxTokens, TRUE)

\* validateSession(token); writeOk tells whether the store takes the refresh
\* update, should the call make one
ValidateSessionWrite(token, writeOk) ==
    LET r == validateSessionOutcome(sessions, token, now, writeOk)
    IN /\ sessions' = r.store
       /\ last' = [op |-> "validateSession", token |-> token,
                   pre |-> sessionByToken(sessions, token),
                   writeOk |-> writeOk,
                   user |-> r.result.user, session |-> r.result.session]
       /\ UNCHANGED <<now, nextSession, cookie, inflight, tokenVars>>

ValidateSession(token) == ValidateSessionWrite(token, TRUE)

\* getCurrentSession: validateSession on the cookie; a fresh session has its
\* cookie re-issued with the same value
GetCurrentSession ==
    LET r == validateSession(sessions, cookie, now)
    IN /\ sessions' = r.store
       /\ last' = [op |-> "getCurrentSession", token |-> cookie,
                   pre |-> sessionByToken(sessions, cookie),
                   user |-> r.result.user, session |-> r.result.session]
       /\ UNCHANGED <<now, nextSession, cookie, inflight, tokenVars>>

\* validateSessionToken: the middleware's lighter check, no extension
validateSessionToken(S, token, t) ==
    LET data == sessionByToken(S, token)
    IN IF data = NoSession
       THEN [result |-> [user |-> NoUser, session |-> NoSession], store |-> S]
       ELSE IF t >= data.expires_at
       THEN [result |-> [user |-> NoUser, session |-> NoSession],
             store |-> deleteSession(S, token)]
       ELSE [result |-> [user |-> data.user_id, session |-> data], store |-> S]

ValidateSessionToken(token) ==
    LET r == validateSessionToken(sessions, token, now)
    IN /\ sessions' = r.store
       /\ last' = [op |-> "validateSessionToken", token |-> token,
                   pre |-> sessionByToken(sessions, token),
                   user |-> r.result.user, session |-> r.result.session]
       /\ UNCHANGED <<now, nextSession, cookie, inflight, tokenVars>>

\* extendSession(token, newExpiresAt): the caller supplies the new expiry
ExtendSession(token, newExpiresAt) ==
    /\ sessions' = updateExpiresAt(sessions, token, newExpiresAt, now)
    /\ last' = [op |-> "extendSession", token |-> token,
                pre |-> sessionByToken(sessions, token)]
    /\ UNCHANGED <<now, nextSession, cookie, inflight, tokenVars>>

SignOut ==
    /\ sessions' = IF cookie # NoToken THEN deleteSession(sessions, cookie)
                   ELSE sessions
    /\ cookie' = NoToken
    /\ last' = [op |-> "signOut", token |-> cookie]
    /\ UNCHANGED <<now, nextSession, inflight, tokenVars>>

\* limitUserSessions(userId, maxSessions) called on its own
LimitUserSessions(userId, maxSessions) ==
    /\ \E S2 \in limitUserSessions(sessions, userId, maxSessions) :
         sessions' = S2
    /\ last' = [op |-> "limitUserSessions", user |-> userId,
                maxSessions |-> maxSessions, before |-> sessions]
    /\ UNCHANGED <<now, nextSession, cookie, inflight, tokenVars>>

\* cleanupSessions(), and the SQL function cleanup_expired_sessions()
CleanupSessions(expiredOk, inactiveOk) ==
    /\ sessions' = cleanupSessions(sessions, now, expiredOk, inactiveOk)
    /\ last' = [op |-> "cleanupSessions", before |-> sessions,
                expiredOk |-> expiredOk, inactiveOk |-> inactiveOk]
    /\ UNCHANGED <<now, nextSession, cookie, inflight, tokenVars>>

CleanupExpiredSessions ==
    /\ sessions' = cleanup_expired_sessions(sessions, now)
    /\ last' = [op |-> "cleanup_expired_sessions", before |-> sessions,
                deleted |-> Cardinality(sessions) -
                            Cardinality(cleanup_expired_sessions(sessions, now))]
    /\ UNCHANGED <<now, nextSession, cookie, inflight, tokenVars>>

\* updateSessionDevice(token, ipAddress, deviceInfo)
UpdateSessionDevice(token, hasFields) ==
    /\ \E S2 \in updateSessionDevice(sessions, token, hasFields, now) :
         sessions' = S2
    /\ last' = [op |-> "updateSessionDevice", token |-> token,
                hasFields |-> hasFields,
                pre |-> sessionByToken(sessions, token)]
    /\ UNCHANGED <<now, nextSession, cookie, inflight, tokenVars>>

\* validateSession, first half: the clock is read and the row selected
ValidateSessionRead(w, token) ==
    /\ inflight[w] = Idle
    /\ sessionByToken(sessions, token) # NoSession
    /\ inflight' = [inflight EXCEPT ![w] =
                       [pc |-> "validate", token |-> token,
                        data |-> sessionByToken(sessions, token), readAt |-> now]]
    /\ last' = [op |-> "validateSession:read", worker |-> w, token |-> token]
    /\ UNCHANGED <<now, sessions, nextSession, cookie, tokenVars>>

\* validateSession, second half: the expiry test, then the delete or the
\* refresh update, on the table as it is by then
ValidateSessionFinish(w) ==
    /\ inflight[w] # Idle
    /\ inflight[w].pc = "validate"
    /\ LET r == validateSessionAfterRead(sessions, inflight[w].data,
                                         inflight[w].readAt, now)
       IN /\ sessions' = r.store
          /\ last' = [op |-> "validateSession:finish", worker |-> w,
                      token |-> inflight[w].token, data |-> inflight[w].data,
                      pre |-> sessionByToken(sessions, inflight[w].token),
                      user |-> r.result.user, session |-> r.result.session]
    /\ inflight' = [inflight EXCEPT ![w] = Idle]
    /\ UNCHANGED <<now, nextSession, cookie, tokenVars>>

\* deleteSession(token)
DeleteSession(token) ==
    /\ sessions' = deleteSession(sessions, token)
    /\ last' = [op |-> "deleteSession", token |-> token,
                pre |-> sessionByToken(sessions, token)]
    /\ UNCHANGED <<now, nextSession, cookie, inflight, tokenVars>>

\* a slip: every deletion is taken for the caller's own session
isDeletingCurrentSession_always(tokenToDelete, currentSessionToken) == TRUE

\* sessionToDelete.token === currentSessionToken
isDeletingCurrentSession(tokenToDelete, currentSessionToken) ==
    tokenToDelete = currentSessionToken

\* deleteUserSession(sessionId): the caller is whoever the cookie authenticates
DeleteUserSession(sessionId) ==
    LET cur == validateSession(sessions, cookie, now)
        user == cur.result.user
        found == {s \in UserSessions(cur.store, user) : s.id = sessionId}
    IN IF user = NoUser \/ found = {}
       THEN /\ sessions' = cur.store
            /\ last' = [op |-> "deleteUserSession", caller |-> user, ok |-> FALSE,
                        deleted |-> {}, deletedCurrentSession |-> FALSE,
                        target |-> NoToken, current |-> cookie,
                        requested |-> sessionId]
            /\ UNCHANGED <<now, nextSession, cookie, inflight, tokenVars>>
       ELSE LET sessionToDelete == CHOOSE s \in found : TRUE
                deletingCurrent ==
                    isDeletingCurrentSession(sessionToDelete.token,
                                             cur.result.session.token)
                S2 == deleteSessionById(cur.store, sessionId, user)
            IN /\ sessions' = S2
               /\ cookie' = IF deletingCurrent THEN NoToken ELSE cookie
               /\ last' = [op |-> "deleteUserSession", caller |-> user, ok |-> TRUE,
                           deleted |-> cur.store \ S2,
                           deletedCurrentSession |-> deletingCurrent,
                           target |-> sessionToDelete.token, current |-> cookie,
                           requested |-> sessionId]
               /\ UNCHANGED <<now, nextSession, inflight, tokenVars>>

\* deleteSessionByToken(tokenToDelete)
DeleteSessionByToken(tokenToDelete) ==
    LET cur == validateSession(sessions, cookie, now)
        user == cur.result.user
    IN IF user = NoUser
       THEN /\ sessions' = cur.store
            /\ last' = [op |-> "deleteSessionByToken", caller |-> user, ok |-> FALSE,
                        deleted |-> {}, deletedCurrentSession |-> FALSE,
                        target |-> tokenToDelete, current |-> cookie,
                        requested |-> tokenToDelete]
            /\ UNCHANGED <<now, nextSession, cookie, inflight, tokenVars>>
       ELSE LET deletingCurrent == isDeletingCurrentSession(tokenToDelete, cookie)
                S2 == deleteSession(cur.store, tokenToDelete)
            IN /\ sessions' = S2
               /\ cookie' = IF deletingCurrent THEN NoToken ELSE cookie
               /\ last' = [op |-> "deleteSessionByToken", caller |-> user, ok |-> TRUE,
                           deleted |-> cur.store \ S2,
                           deletedCurrentSession |-> deletingCurrent,
                           target |-> tokenToDelete, current |-> cookie,
                           requested |-> tokenToDelete]
               /\ UNCHANGED <<now, nextSession, inflight, tokenVars>>

\* deleteSessionById(sessionId, userId) for an authenticated user
DeleteSessionById(sessionId, userId) ==
    LET S2 == deleteSessionById(sessions, sessionId, userId)
    IN /\ sessions' = S2
       /\ last' = [op |-> "deleteSessionById", caller |-> userId, ok |-> TRUE,
                   deleted |-> sessions \ S2, deletedCurrentSession |-> FALSE,
                   target |-> sessionId, current |-> NoToken,
                   requested |-> sessionId]
       /\ UNCHANGED <<now, nextSession, cookie, inflight, tokenVars>>

(***************************************************************************)
(* createSession as concurrent requests run it: it is suspended at each    *)
(* await, and another worker's call may run in between.                    *)
(***************************************************************************)
\* createSession up to limitUserSessions' select: the token and expiry are
\* drawn, the user's sessions are read and the rows to delete are picked.
\* overlapped and bothLimited record the history of the call: which other
\* calls ran while it was in flight, and whether it and another call had
\* both finished limitUserSessions before either inserted.
CreateSessionSelect(w, userId, maxTokens) ==
    /\ inflight[w] = Idle
    /\ nextSession < maxTokens
    /\ \E D \in sessionsToDelete(sessions, userId, MAX_SESSIONS_PER_USER - 1) :
          LET others == {v \in Workers \ {w} : inflight[v] # Idle}
          IN inflight' = [v \in Workers |->
                IF v = w
                THEN [pc |-> "delete", user |-> userId,
                      token |-> nextSession + 1,
                      expires_at |-> calculateSessionExpiry(now),
                      tokensToDelete |-> {d.token : d \in D},
                      overlapped |-> others, bothLimited |-> FALSE]
                ELSE IF v \in others
                THEN [inflight[v] EXCEPT !.overlapped = @ \cup {w}]
                ELSE inflight[v]]
    /\ nextSession' = nextSession + 1
    /\ last' = [op |-> "createSession:select", worker |-> w]
    /\ UNCHANGED <<now, sessions, cookie, tokenVars>>

\* limitUserSessions' delete ... in("token", tokensToDelete)
CreateSessionDelete(w) ==
    /\ inflight[w] # Idle
    /\ inflight[w].pc = "delete"
    /\ sessions' = {s \in sessions : s.token \notin inflight[w].tokensToDelete}
    /\ LET waiting == {v \in Workers \ {w} :
                          /\ inflight[v] # Idle
                          /\ inflight[v].pc = "insert"
                          /\ inflight[v].user = inflight[w].user}
       IN inflight' = [v \in Workers |->
             IF v = w
             THEN [inflight[w] EXCEPT !.pc = "insert",
                                      !.bothLimited = (waiting # {})]
             ELSE IF v \in waiting
             THEN [inflight[v] EXCEPT !.bothLimited = TRUE]
             ELSE inflight[v]]
    /\ last' = [op |-> "createSession:delete", worker |-> w]
    /\ UNCHANGED <<now, nextSession, cookie, tokenVars>>

\* the insert, and signIn's setSessionCookie
CreateSessionInsert(w) ==
    /\ inflight[w] # Idle
    /\ inflight[w].pc = "insert"
    /\ LET row == newSession(inflight[w].user, inflight[w].token,
                             inflight[w].expires_at, now)
       IN /\ references_users(users, row.user_id)
          /\ sessions' = sessions \cup {row}
          /\ cookie' = row.token
          /\ last' = [op |-> "createSession:insert", worker |-> w,
                      user |-> row.user_id, session |-> row,
                      overlapped |-> inflight[w].overlapped,
                      bothLimitedBeforeInsert |-> inflight[w].bothLimited]
    /\ inflight' = [inflight EXCEPT ![w] = Idle]
    /\ UNCHANGED <<now, nextSession, tokenVars>>

(***************************************************************************)
(* API token authority                                                     *)
(***************************************************************************)
NoTime == -1
NoSecret == [null |-> TRUE]
NoEnvelope == [null |-> TRUE]
NoRow == [null |-> TRUE]

AVAILABLE_SCOPES ==
    {"api:read", "api:write", "events:read", "events:write", "users:read",
     "users:write", "profile:read", "profile:write", "admin:manage"}

TOKEN_PREFIX == "cx"
ALGORITHM == "aes-256-gcm"
NoAlgorithm == ""
IV_HEX_LENGTH == 32
TAG_HEX_LENGTH == 32

\* generateAPIToken: cx_<timestamp><random>; the random part is fresh
generateAPIToken(t, n) == [lit |-> TOKEN_PREFIX, ts |-> t, rnd |-> n]

\* bcrypt.hash with a per-call salt; bcrypt.compare recovers no secret and
\* accepts exactly the secret that was hashed
hashToken(token, salt) == [digestOf |-> token, salt |-> salt]
verifyToken(token, hash) == hash.digestOf = token

\* the literal prefix and the timestamp, never the random part (a secret
\* accepted by validateAPIToken always holds the "_" the split looks for)
extractTokenPrefix(token) == [lit |-> token.lit, ts |-> token.ts]

\* getEncryptionKey: the configured key, a key generated by this very call
\* when none is configured, or an error when the configured one is not 64
\* hex characters
EnvKeys == {"set", "unset", "malformed"}
NoKey == [null |-> TRUE]
getEncryptionKey(env, draws) ==
    IF env = "set" THEN [ok |-> TRUE, key |-> [generated |-> FALSE, draw |-> 0]]
    ELSE IF env = "malformed" THEN [ok |-> FALSE, key |-> NoKey]
    ELSE [ok |-> TRUE, key |-> [generated |-> TRUE, draw |-> draws + 1]]

\* how many keys have been generated once getEncryptionKey has run
drawsAfter(env, draws) == IF env = "unset" THEN draws + 1 ELSE draws

encryptToken(token, k) ==
    IF ~k.ok
    THEN [ok |-> FALSE, data |-> NoEnvelope]
    ELSE [ok |-> TRUE,
          data |-> [encrypted |-> [plaintext |-> token, key |-> k.key],
                    iv |-> IV_HEX_LENGTH, tag |-> TAG_HEX_LENGTH,
                    tagIntact |-> TRUE, algorithm |-> ALGORITHM]]

\* decryptToken throws unless the cipher is the one the key fits, the key is
\* the one that encrypted and the authentication tag verifies
decryptToken(encryptedData, k) ==
    IF /\ k.ok
       /\ encryptedData.algorithm \in {ALGORITHM, NoAlgorithm}
       /\ encryptedData.encrypted.key = k.key
       /\ encryptedData.tagIntact
    THEN [ok |-> TRUE, token |-> encryptedData.encrypted.plaintext]
    ELSE [ok |-> FALSE, token |-> NoSecret]

isValidEncryptedData(data) ==
    /\ data # NoEnvelope
    /\ data.iv = IV_HEX_LENGTH
    /\ data.tag = TAG_HEX_LENGTH

tokenById(T, tokenId) ==
    IF \E r \in T : r.id = tokenId THEN CHOOSE r \in T : r.id = tokenId ELSE NoRow

\* the rows a client may touch: the service client all of them, a user
\* context client those the RLS policies give it (user_id = auth.uid())
visibleTo(T, caller) ==
    IF caller = NoUser THEN T ELSE {r \in T : r.user_id = caller}

\* select * where prefix = ? and revoked_at is null
getTokensByPrefix(T, prefix) ==
    {r \in T : r.prefix = prefix /\ r.revoked_at = NoTime}

\* order by created_at desc: rows created at the same instant come in any order
candidateOrders(C) ==
    {q \in [1..Cardinality(C) -> C] :
        /\ \A i, j \in 1..Cardinality(C) : i # j => q[i] # q[j]
        /\ \A i, j \in 1..Cardinality(C) : i < j => q[i].created_at >= q[j].created_at}

\* a boundary slip: a token is still accepted at the instant it expires
tokenExpired_strict(expiresAt, t) == expiresAt # NoTime /\ expiresAt < t

\* tokenData.expires_at && new Date(tokenData.expires_at) <= new Date()
tokenExpired(expiresAt, t) == expiresAt # NoTime /\ expiresAt <= t

\* if (tokenData.revoked_at) continue
candidateRevoked(row) == row.revoked_at # NoTime

\* a slip: only the first candidate of the bucket is compared
scanCandidates_firstOnly(q, i, token, t) ==
    IF i > Len(q)
    THEN [valid |-> FALSE, error |-> "Invalid token"]
    ELSE IF /\ ~candidateRevoked(q[i])
            /\ ~tokenExpired(q[i].expires_at, t)
            /\ verifyToken(token, q[i].token_hash)
    THEN [valid |-> TRUE, token |-> q[i], user_id |-> q[i].user_id,
          scopes |-> q[i].scopes]
    ELSE [valid |-> FALSE, error |-> "Invalid token"]

\* the candidate loop of validateAPIToken, from the i-th candidate on
RECURSIVE scanCandidates(_, _, _, _)
scanCandidates(q, i, token, t) ==
    IF i > Len(q)
    THEN [valid |-> FALSE, error |-> "Invalid token"]
    ELSE IF candidateRevoked(q[i]) THEN scanCandidates(q, i + 1, token, t)
    ELSE IF tokenExpired(q[i].expires_at, t) THEN scanCandidates(q, i + 1, token, t)
    ELSE IF verifyToken(token, q[i].token_hash)
    THEN [valid |-> TRUE, token |-> q[i], user_id |-> q[i].user_id,
          scopes |-> q[i].scopes]
    ELSE scanCandidates(q, i + 1, token, t)

\* validateAPIToken: the results it can return, one per candidate order
validateAPIToken(T, token, t) ==
    IF token = NoSecret
    THEN {[valid |-> FALSE, error |-> "No token provided"]}
    ELSE IF token.lit # TOKEN_PREFIX
    THEN {[valid |-> FALSE, error |-> "Invalid token format"]}
    ELSE LET candidateTokens == getTokensByPrefix(T, extractTokenPrefix(token))
         IN IF candidateTokens = {}
            THEN {[valid |-> FALSE, error |-> "Invalid token"]}
            ELSE {scanCandidates(q, 1, token, t) : q \in candidateOrders(candidateTokens)}

\* a slip: the timestamp is written to expires_at instead of last_used_at
updateTokenLastUsed_intoExpiresAt(T, tokenHash, t) ==
    {IF r.token_hash = tokenHash THEN [r EXCEPT !.expires_at = t] ELSE r : r \in T}

\* a slip: the write is an upsert on token_hash, a row is made when none has it
updateTokenLastUsed_upsert(T, tokenHash, t) ==
    IF \E r \in T : r.token_hash = tokenHash
    THEN {IF r.token_hash = tokenHash THEN [r EXCEPT !.last_used_at = t] ELSE r : r \in T}
    ELSE T \cup {[id |-> 0, token_hash |-> tokenHash,
                  prefix |-> extractTokenPrefix(tokenHash.digestOf),
                  scopes |-> {}, user_id |-> NoUser, expires_at |-> NoTime,
                  last_used_at |-> t, created_at |-> t, revoked_at |-> NoTime,
                  token_encrypted |-> NoEnvelope, allow_viewing |-> TRUE]}

\* a slip: the whole row is written back from a stale read taken at issuance
updateTokenLastUsed_staleRow(T, tokenHash, t) ==
    {IF r.token_hash = tokenHash
     THEN [r EXCEPT !.last_used_at = t, !.revoked_at = NoTime] ELSE r : r \in T}

\* update api_tokens set last_used_at = now where token_hash = ?
updateTokenLastUsed(T, tokenHash, t) ==
    {IF r.token_hash = tokenHash THEN [r EXCEPT !.last_used_at = t] ELSE r : r \in T}

\* CONSTRAINT valid_token_state of the api_tokens table
valid_token_state(row) ==
    /\ row.expires_at = NoTime \/ row.expires_at > row.created_at
    /\ row.revoked_at = NoTime \/ row.revoked_at >= row.created_at

\* revokeAPIToken: update ... set revoked_at = now where id = ?, .single()
revokeAPIToken(T, tokenId, caller, t) ==
    LET row == tokenById(visibleTo(T, caller), tokenId)
    IN IF row = NoRow
       THEN [ok |-> FALSE, store |-> T]
       ELSE [ok |-> TRUE,
             store |-> (T \ {row}) \cup {[row EXCEPT !.revoked_at = t]}]

applyUpdates(row, updates) ==
    [f \in DOMAIN row |-> IF f \in DOMAIN updates THEN updates[f] ELSE row[f]]

\* updateAPIToken: update ... set <updates> where id = ?, .single()
updateAPIToken(T, tokenId, updates, caller) ==
    LET row == tokenById(visibleTo(T, caller), tokenId)
    IN IF row = NoRow \/ ~valid_token_state(applyUpdates(row, updates))
       THEN [ok |-> FALSE, store |-> T]
       ELSE [ok |-> TRUE, store |-> (T \ {row}) \cup {applyUpdates(row, updates)}]

\* a slip: the updates go to the table without the scope check
updateToken_unchecked(T, tokenId, updates, caller) ==
    updateAPIToken(T, tokenId, updates, caller)

\* updateToken: the scope check, then updateAPIToken
updateToken(T, tokenId, updates, caller) ==
    IF "scopes" \in DOMAIN updates /\ updates.scopes \ AVAILABLE_SCOPES # {}
    THEN [ok |-> FALSE, store |-> T]
    ELSE updateAPIToken(T, tokenId, updates, caller)

\* deleteAPIToken: delete ... where id = ?; no row deleted is no error
deleteAPIToken(T, tokenId, caller) ==
    {r \in T : ~(r.id = tokenId /\ r \in visibleTo(T, caller))}

\* cleanupAPITokens' horizon for revoked tokens: now minus 30 days
thirtyDaysAgo(t) == t - 30

\* a slip: every revoked token is swept, however recently it was revoked
cleanupAPITokens_allRevoked(T, t, revokedOk, expiredOk) ==
    {r \in T : r.revoked_at = NoTime /\ ~(r.expires_at # NoTime /\ r.expires_at < t)}

\* cleanupAPITokens: delete where revoked_at is not null and revoked_at <
\* thirtyDaysAgo, then delete where expires_at is not null and expires_at <
\* now; a failed delete is only logged
cleanupAPITokens(T, t, revokedOk, expiredOk) ==
    LET afterRevoked ==
            IF revokedOk
            THEN {r \in T : ~(r.revoked_at # NoTime /\ r.revoked_at < thirtyDaysAgo(t))}
            ELSE T
    IN IF expiredOk
       THEN {r \in afterRevoked : ~(r.expires_at # NoTime /\ r.expires_at < t)}
       ELSE afterRevoked

\* a slip: only the emptiness of the list is tested
scopesAccepted_nonEmptyOnly(scopes) == scopes # {}

\* createAPIToken's checks of the request
scopesAccepted(scopes) == scopes \ AVAILABLE_SCOPES = {} /\ scopes # {}

\* the row createAPIToken inserts
newAPIToken(n, request, envelope, t) ==
    LET token == generateAPIToken(t, n)
    IN [id |-> n,
        token_hash |-> hashToken(token, n),
        prefix |-> extractTokenPrefix(token),
        scopes |-> request.scopes,
        user_id |-> request.user_id,
        expires_at |-> IF request.expires_in_days > 0
                       THEN t + request.expires_in_days ELSE NoTime,
        last_used_at |-> NoTime,
        created_at |-> t,
        revoked_at |-> NoTime,
        token_encrypted |-> envelope,
        allow_viewing |-> TRUE]

\* getTokenWithDecryption
getTokenWithDecryption(T, tokenId, k) ==
    LET tokenData == tokenById(T, tokenId)
    IN IF tokenData = NoRow
       THEN [found |-> FALSE]
       ELSE IF ~isValidEncryptedData(tokenData.token_encrypted)
       THEN [found |-> TRUE, tokenData |-> tokenData, can_decrypt |-> FALSE,
             encryption_status |-> "invalid", decrypted_token |-> NoSecret]
       ELSE LET d == decryptToken(tokenData.token_encrypted, k)
            IN IF d.ok
               THEN [found |-> TRUE, tokenData |-> tokenData, can_decrypt |-> TRUE,
                     encryption_status |-> "encrypted", decrypted_token |-> d.token]
               ELSE [found |-> TRUE, tokenData |-> tokenData, can_decrypt |-> FALSE,
                     encryption_status |-> "error", decrypted_token |-> NoSecret]

\* getTokenDisplayInfo: what the token list shows about viewing a token
getTokenDisplayInfo(token) ==
    LET encryption_status == IF isValidEncryptedData(token.token_encrypted)
                             THEN "encrypted" ELSE "invalid"
    IN [id |-> token.id,
        is_system_token |-> (token.user_id = NoUser),
        can_view |-> (token.allow_viewing /\ encryption_status = "encrypted"),
        encryption_status |-> encryption_status]

\* a slip: the ownership test is missing
accessDenied_never(tokenData, requestingUserId) == FALSE

\* tokenData.user_id && tokenData.user_id !== requestingUserId
accessDenied(tokenData, requestingUserId) ==
    tokenData.user_id # NoUser /\ tokenData.user_id # requestingUserId

\* viewToken: the secret returned, or the error thrown
viewToken(T, tokenId, requestingUserId, k) ==
    LET tokenWithDecryption == getTokenWithDecryption(T, tokenId, k)
    IN IF ~tokenWithDecryption.found
       THEN [ok |-> FALSE, error |-> "Token not found"]
       ELSE IF accessDenied(tokenWithDecryption.tokenData, requestingUserId)
       THEN [ok |-> FALSE, error |-> "Access denied"]
       ELSE IF ~tokenWithDecryption.can_decrypt
       THEN [ok |-> FALSE,
             error |-> IF tokenWithDecryption.encryption_status = "invalid"
                       THEN "Token encryption data is corrupted"
                       ELSE "Failed to decrypt token"]
       ELSE [ok |-> TRUE, token |-> tokenWithDecryption.decrypted_token]

(***************************************************************************)
(* Route guard                                                             *)
(***************************************************************************)
NoHeader == [null |-> TRUE]

\* the Authorization header when it is "Bearer <token>", else X-API-Key
extractTokenFromRequest(request) ==
    IF request.authorization # NoHeader /\ request.authorization.scheme = "bearer"
    THEN request.authorization.token
    ELSE request.xApiKey

\* authenticateAPIRequest: the validation results it can return
authenticateAPIRequest(T, request, t) ==
    IF extractTokenFromRequest(request) = NoSecret
    THEN {[valid |-> FALSE, error |-> "No API token provided"]}
    ELSE validateAPIToken(T, extractTokenFromRequest(request), t)

hasScope(userScopes, requiredScope) == requiredScope \in userScopes

\* requiredScopes.some(scope => userScopes.includes(scope))
hasAnyScope(userScopes, requiredScopes) ==
    \E scope \in requiredScopes : hasScope(userScopes, scope)

\* a slip: the granted scopes must be exactly the required ones
hasAllScopes_exact(userScopes, requiredScopes) == userScopes = requiredScopes

\* a slip: one required scope is enough
hasAllScopes_some(userScopes, requiredScopes) ==
    \E scope \in requiredScopes : hasScope(userScopes, scope)

\* requiredScopes.every(scope => userScopes.includes(scope))
hasAllScopes(userScopes, requiredScopes) ==
    \A scope \in requiredScopes : hasScope(userScopes, scope)

\* the guard requireScopes(...requiredScopes) builds, applied to a result of
\* authenticateAPIRequest (a valid result always carries the row's scopes)
requireScopes(authResult, requiredScopes) ==
    IF ~authResult.valid THEN authResult
    ELSE IF ~hasAllScopes(authResult.scopes, requiredScopes)
    THEN [valid |-> FALSE, error |-> "Missing required scopes"]
    ELSE authResult

NoContext == [type |-> "none"]

\* authenticateRequest: an api_token context for a valid token, else none
authenticateRequest(apiAuth) ==
    IF apiAuth.valid
    THEN [type |-> "api_token", user_id |-> apiAuth.user_id,
          scopes |-> apiAuth.scopes, api_token_id |-> apiAuth.token.id]
    ELSE NoContext

\* getAuthContextFromHeaders: x-auth-type, x-auth-user-id, x-auth-scopes of
\* the incoming request; an absent or empty header reads as none / no scopes
getAuthContextFromHeaders(request) ==
    [type |-> IF request.xAuthType = "" THEN "none" ELSE request.xAuthType,
     user_id |-> request.xAuthUserId,
     scopes |-> request.xAuthScopes]

hasRequiredScope(authContext, requiredScope) ==
    IF authContext.type = "none" THEN FALSE
    ELSE IF authContext.type = "api_token" THEN requiredScope \in authContext.scopes
    ELSE FALSE

\* requireAuth: the header context when its type is not none, otherwise the
\* context of the presented token; threw marks "Authentication required"
requireAuth(T, request, t) ==
    LET headerAuth == getAuthContextFromHeaders(request)
    IN IF headerAuth.type # "none"
       THEN {[threw |-> FALSE, authContext |-> headerAuth, validated |-> FALSE]}
       ELSE {[threw |-> authenticateRequest(apiAuth) = NoContext,
              authContext |-> authenticateRequest(apiAuth),
              validated |-> apiAuth.valid] :
                apiAuth \in authenticateAPIRequest(T, request, t)}

\* withAuth: the response status and whether the wrapped handler ran
withAuthOutcome(a, options) ==
    IF a.threw THEN [status |-> 401, invoked |-> FALSE]
    ELSE IF ~options.allowApiTokens /\ a.authContext.type = "api_token"
    THEN [status |-> 403, invoked |-> FALSE]
    ELSE IF ~options.allowSessions /\ a.authContext.type = "session"
    THEN [status |-> 403, invoked |-> FALSE]
    ELSE IF ~hasRequiredScope(a.authContext, options.requireScope)
    THEN [status |-> 403, invoked |-> FALSE]
    ELSE [status |-> 200, invoked |-> TRUE]

(***************************************************************************)
(* API token operations                                                    *)
(***************************************************************************)
\* createAPIToken(request)
CreateAPIToken(request, maxTokens) ==
    /\ nextToken < maxTokens
    /\ LET k == getEncryptionKey(envKey, keyDraws)
           e == encryptToken(generateAPIToken(now, nextToken + 1), k)
       IN IF ~scopesAccepted(request.scopes)
          THEN /\ UNCHANGED <<tokens, nextToken, keyDraws>>
               /\ last' = [op |-> "createAPIToken", ok |-> FALSE,
                           request |-> request, before |-> tokens]
          ELSE IF ~e.ok
          THEN /\ UNCHANGED <<tokens, nextToken, keyDraws>>
               /\ last' = [op |-> "createAPIToken", ok |-> FALSE,
                           request |-> request, before |-> tokens]
          ELSE IF request.user_id # NoUser /\ ~references_users(users, request.user_id)
          THEN \* the insert violates the foreign key: "Failed to create API token"
               /\ UNCHANGED <<tokens, nextToken>>
               /\ keyDraws' = drawsAfter(envKey, keyDraws)
               /\ last' = [op |-> "createAPIToken", ok |-> FALSE,
                           request |-> request, before |-> tokens]
          ELSE /\ tokens' = tokens \cup {newAPIToken(nextToken + 1, request, e.data, now)}
               /\ nextToken' = nextToken + 1
               /\ keyDraws' = drawsAfter(envKey, keyDraws)
               /\ last' = [op |-> "createAPIToken", ok |-> TRUE,
                           request |-> request, before |-> tokens,
                           token |-> generateAPIToken(now, nextToken + 1),
                           tokenData |-> newAPIToken(nextToken + 1, request, e.data, now)]
    /\ UNCHANGED <<now, pendingLastUsed, envKey>>
    /\ UNCHANGED sessionVars

\* validateAPIToken(token); the last-used update it starts runs detached
ValidateAPIToken(token) ==
    /\ \E r \in validateAPIToken(tokens, token, now) :
         /\ pendingLastUsed' = IF r.valid
                               THEN pendingLastUsed \cup {r.token.token_hash}
                               ELSE pendingLastUsed
         /\ last' = [op |-> "validateAPIToken", token |-> token, result |-> r]
    /\ UNCHANGED <<now, tokens, nextToken, envKey, keyDraws>>
    /\ UNCHANGED sessionVars

\* the detached updateTokenLastUsed(tokenHash) completes, or fails and is
\* only logged
LastUsedUpdate(tokenHash, ok) ==
    /\ tokenHash \in pendingLastUsed
    /\ pendingLastUsed' = pendingLastUsed \ {tokenHash}
    /\ tokens' = IF ok THEN updateTokenLastUsed(tokens, tokenHash, now) ELSE tokens
    /\ last' = [op |-> "updateTokenLastUsed", ok |-> ok, tokenHash |-> tokenHash]
    /\ UNCHANGED <<now, nextToken, envKey, keyDraws>>
    /\ UNCHANGED sessionVars

\* revokeToken(tokenId, userId, email)
RevokeToken(tokenId, caller) ==
    /\ tokens' = revokeAPIToken(tokens, tokenId, caller, now).store
    /\ last' = [op |-> "revokeToken", id |-> tokenId, caller |-> caller,
                ok |-> revokeAPIToken(tokens, tokenId, caller, now).ok,
                pre |-> tokenById(tokens, tokenId)]
    /\ UNCHANGED <<now, nextToken, pendingLastUsed, envKey, keyDraws>>
    /\ UNCHANGED sessionVars

\* updateToken(tokenId, updates, userId, email)
UpdateToken(tokenId, updates, caller) ==
    /\ tokens' = updateToken(tokens, tokenId, updates, caller).store
    /\ last' = [op |-> "updateToken", id |-> tokenId, caller |-> caller,
                updates |-> updates, before |-> tokens,
                ok |-> updateToken(tokens, tokenId, updates, caller).ok,
                pre |-> tokenById(tokens, tokenId)]
    /\ UNCHANGED <<now, nextToken, pendingLastUsed, envKey, keyDraws>>
    /\ UNCHANGED sessionVars

\* deleteToken(tokenId, userId, email)
DeleteToken(tokenId, caller) ==
    /\ tokens' = deleteAPIToken(tokens, tokenId, caller)
    /\ last' = [op |-> "deleteToken", id |-> tokenId, caller |-> caller,
                pre |-> tokenById(tokens, tokenId)]
    /\ UNCHANGED <<now, nextToken, pendingLastUsed, envKey, keyDraws>>
    /\ UNCHANGED sessionVars

\* viewToken(tokenId, requestingUserId); decryptToken runs, and draws a key,
\* only for a stored token whose envelope is structurally valid
ViewToken(tokenId, requestingUserId, maxDraws) ==
    /\ keyDraws < maxDraws
    /\ keyDraws' = IF /\ tokenById(tokens, tokenId) # NoRow
                      /\ isValidEncryptedData(tokenById(tokens, tokenId).token_encrypted)
                   THEN drawsAfter(envKey, keyDraws) ELSE keyDraws
    /\ last' = [op |-> "viewToken", id |-> tokenId,
                requester |-> requestingUserId,
                pre |-> tokenById(tokens, tokenId),
                key |-> getEncryptionKey(envKey, keyDraws),
                decryption |-> getTokenWithDecryption(
                                   tokens, tokenId,
                                   getEncryptionKey(envKey, keyDraws)),
                result |-> viewToken(tokens, tokenId, requestingUserId,
                                     getEncryptionKey(envKey, keyDraws))]
    /\ UNCHANGED <<now, tokens, nextToken, pendingLastUsed, envKey>>
    /\ UNCHANGED sessionVars

\* testEncryption's fixed plaintext, "calyx_test_token_12345"
testToken == [lit |-> "calyx", ts |-> 0, rnd |-> 12345]

\* testEncryption: encryptToken then decryptToken, each loading the key
TestEncryption(maxDraws) ==
    LET k1 == getEncryptionKey(envKey, keyDraws)
        e == encryptToken(testToken, k1)
        k2 == getEncryptionKey(envKey, drawsAfter(envKey, keyDraws))
        d == IF e.ok THEN decryptToken(e.data, k2)
             ELSE [ok |-> FALSE, token |-> NoSecret]
    IN /\ drawsAfter(envKey, drawsAfter(envKey, keyDraws)) <= maxDraws
       /\ keyDraws' = IF e.ok THEN drawsAfter(envKey, drawsAfter(envKey, keyDraws))
                      ELSE keyDraws
       /\ last' = [op |-> "testEncryption", encryptKey |-> k1, decryptKey |-> k2,
                   result |-> (d.ok /\ d.token = testToken)]
       /\ UNCHANGED <<now, tokens, nextToken, pendingLastUsed, envKey>>
       /\ UNCHANGED sessionVars

\* hasAllScopes and hasRequiredScope applied to a scope list, and to the same
\* list with further scopes granted
HasAllScopes(userScopes, added, requiredScopes) ==
    /\ last' = [op |-> "hasAllScopes", userScopes |-> userScopes,
                added |-> added, requiredScopes |-> requiredScopes,
                before |-> hasAllScopes(userScopes, requiredScopes),
                after |-> hasAllScopes(userScopes \cup added, requiredScopes),
                grantedBefore |->
                    {scope \in requiredScopes :
                        hasRequiredScope([type |-> "api_token",
                                          scopes |-> userScopes], scope)},
                grantedAfter |->
                    {scope \in requiredScopes :
                        hasRequiredScope([type |-> "api_token",
                                          scopes |-> userScopes \cup added], scope)}]
    /\ UNCHANGED <<now, sessionVars, tokenVars>>

\* DELETE FROM users WHERE id = userId, with the cascades the sessions and
\* api_tokens tables declare on their user_id references
DeleteUser(userId) ==
    /\ userId \in users
    /\ users' = users \ {userId}
    /\ sessions' = cascadeSessions(sessions, userId)
    /\ tokens' = cascadeTokens(tokens, userId)
    /\ last' = [op |-> "deleteUser", user |-> userId,
                sessions |-> sessions, tokens |-> tokens]
    /\ UNCHANGED <<now, nextSession, cookie, inflight,
                   nextToken, pendingLastUsed, envKey, keyDraws>>

\* getTokenDisplayInfo(token) on a stored token
GetTokenDisplayInfo(tokenId) ==
    /\ tokenById(tokens, tokenId) # NoRow
    /\ last' = [op |-> "getTokenDisplayInfo", id |-> tokenId,
                result |-> getTokenDisplayInfo(tokenById(tokens, tokenId))]
    /\ UNCHANGED <<now, sessionVars, tokenVars>>

\* cleanupAPITokens()
CleanupAPITokens(revokedOk, expiredOk) ==
    /\ tokens' = cleanupAPITokens(tokens, now, revokedOk, expiredOk)
    /\ last' = [op |-> "cleanupAPITokens", before |-> tokens,
                revokedOk |-> revokedOk, expiredOk |-> expiredOk]
    /\ UNCHANGED <<now, nextToken, pendingLastUsed, envKey, keyDraws>>
    /\ UNCHANGED sessionVars

\* the guard built by requireScopes(...requiredScopes) receives a request
RequireScopes(request, requiredScopes) ==
    /\ \E authResult \in authenticateAPIRequest(tokens, request, now) :
         /\ pendingLastUsed' = IF authResult.valid
                               THEN pendingLastUsed \cup {authResult.token.token_hash}
                               ELSE pendingLastUsed
         /\ last' = [op |-> "requireScopes", request |-> request,
                     required |-> requiredScopes, auth |-> authResult,
                     result |-> requireScopes(authResult, requiredScopes)]
    /\ UNCHANGED <<now, tokens, nextToken, envKey, keyDraws>>
    /\ UNCHANGED sessionVars

\* authenticateRequest(request) for a request that carries the token headers
\* of request and the session cookie sessionCookie, which it never reads
AuthenticateRequest(request, sessionCookie) ==
    /\ \E apiAuth \in authenticateAPIRequest(tokens, request, now) :
         /\ pendingLastUsed' = IF apiAuth.valid
                               THEN pendingLastUsed \cup {apiAuth.token.token_hash}
                               ELSE pendingLastUsed
         /\ last' = [op |-> "authenticateRequest", request |-> request,
                     cookie |-> sessionCookie, apiAuth |-> apiAuth,
                     authContext |-> authenticateRequest(apiAuth)]
    /\ UNCHANGED <<now, tokens, nextToken, envKey, keyDraws>>
    /\ UNCHANGED sessionVars

\* a route wrapped by withAuth(handler, options) receives a request
WithAuth(request, options) ==
    /\ \E a \in requireAuth(tokens, request, now) :
         /\ pendingLastUsed' =
              IF a.validated
              THEN pendingLastUsed \cup
                     {tokenById(tokens, a.authContext.api_token_id).token_hash}
              ELSE pendingLastUsed
         /\ last' = [op |-> "withAuth", request |-> request, options |-> options,
                     authContext |-> a.authContext,
                     status |-> withAuthOutcome(a, options).status,
                     invoked |-> withAuthOutcome(a, options).invoked]
    /\ UNCHANGED <<now, tokens, nextToken, envKey, keyDraws>>
    /\ UNCHANGED sessionVars

(***************************************************************************)
(* Inputs of the token operations                                          *)
(***************************************************************************)
Callers == Users \cup {NoUser}

\* what a client can present: the secret of a stored token, a guess that
\* shares a stored token's prefix, a string without the cx_ prefix, nothing
PresentedSecrets(T) ==
    {r.token_hash.digestOf : r \in T}
      \cup {[lit |-> TOKEN_PREFIX, ts |-> r.prefix.ts, rnd |-> 0] : r \in T}
      \cup {[lit |-> "xx", ts |-> 0, rnd |-> 0], NoSecret}

TokenRequests ==
    {[scopes |-> sc, user_id |-> u, expires_in_days |-> d] :
        sc \in {{"events:write"}, {}, {"events:write", "bogus:scope"}},
        u \in {"u1"}, d \in {0, 5}}

TokenUpdates(t) ==
    {[scopes |-> {"bogus:scope"}], [expires_at |-> NoTime], [expires_at |-> t]}

ViewRequests ==
    {[scopes |-> {"events:write"}, user_id |-> u, expires_in_days |-> 0] :
        u \in {"u1", NoUser}}

\* envelopes a writer of token_encrypted can store in place of e
Tamperings(e) ==
    IF e = NoEnvelope \/ ~e.tagIntact \/ e.iv # IV_HEX_LENGTH \/ e.algorithm # ALGORITHM
    THEN {}
    ELSE {NoEnvelope, [e EXCEPT !.iv = 16], [e EXCEPT !.tagIntact = FALSE],
          [e EXCEPT !.algorithm = "aes-128-gcm"],
          [e EXCEPT !.algorithm = NoAlgorithm]}

ViewUpdates(T, tokenId) ==
    {[token_encrypted |-> e] :
        e \in Tamperings(tokenById(T, tokenId).token_encrypted)
                \cup {r.token_encrypted : r \in T}}

GuardRequests ==
    {[scopes |-> sc, user_id |-> "u1", expires_in_days |-> d] :
        sc \in {{"users:write"}, {"events:read"}}, d \in {0, 5}}

GuardOptions ==
    {[requireScope |-> sc, allowApiTokens |-> TRUE, allowSessions |-> TRUE] :
        sc \in {"users:write", "events:write"}}
      \cup {[requireScope |-> "users:write", allowApiTokens |-> FALSE, allowSessions |-> TRUE],
            [requireScope |-> "users:write", allowApiTokens |-> TRUE, allowSessions |-> FALSE]}

\* scope lists a caller can pass: empty, known, unknown, and a mix
ScopeLists ==
    {{}, {"events:read"}, {"events:read", "events:write"},
     {"events:read", "bogus:scope"}, {"bogus:scope"}}

ScopeRequests ==
    {[scopes |-> sc, user_id |-> "u1", expires_in_days |-> 0] : sc \in ScopeLists}

ScopeUpdates == {[scopes |-> sc] : sc \in ScopeLists}

\* requests that carry a token, or none, and no other header of interest
ApiRequests(T) ==
    {[authorization |-> a, xApiKey |-> k, xAuthType |-> "",
      xAuthUserId |-> NoUser, xAuthScopes |-> {}] :
        a \in {NoHeader} \cup {[scheme |-> "bearer", token |-> r.token_hash.digestOf] : r \in T},
        k \in {NoSecret} \cup {r.token_hash.digestOf : r \in T}}

RequiredLists == {{}, {"events:read"}, {"events:read", "events:write"}}

\* the requests a client can send: any headers it likes
Requests(T) ==
    {[authorization |-> a, xApiKey |-> k, xAuthType |-> ty,
      xAuthUserId |-> NoUser, xAuthScopes |-> sc] :
        a \in {NoHeader} \cup {[scheme |-> "bearer", token |-> x] : x \in PresentedSecrets(T) \ {NoSecret}}
                \cup {[scheme |-> "basic", token |-> r.token_hash.digestOf] : r \in T},
        k \in {NoSecret} \cup {r.token_hash.digestOf : r \in T},
        ty \in {"", "api_token", "session"},
        sc \in {{}, {"users:write"}}}

ExtendChoices(t) == {t, calculateSessionExpiry(t)}

NextSession ==
    \/ Tick(MaxDays)
    \/ \E u \in Users : CreateSession(u, MaxSessionTokens)
    \/ \E t \in 0..nextSession : ValidateSession(t)
    \/ \E t \in 1..nextSession : ValidateSessionToken(t)
    \/ \E t \in 1..nextSession, e \in ExtendChoices(now) : ExtendSession(t, e)

SpecSession == Init /\ [][NextSession]_vars

NextOwner ==
    \/ Tick(MaxDays)
    \/ \E u \in Users : CreateSession(u, MaxSessionTokens)
    \/ GetCurrentSession
    \/ SignOut
    \/ \E id \in 1..nextSession : DeleteUserSession(id)
    \/ \E t \in 1..nextSession : DeleteSessionByToken(t)
    \/ \E id \in 1..nextSession, u \in Users : DeleteSessionById(id, u)

SpecOwner == Init /\ [][NextOwner]_vars

NextCap ==
    \/ Tick(MaxCapDays)
    \/ \E u \in Users : CreateSession(u, MaxCapTokens)
    \/ \E t \in 1..nextSession : ExtendSession(t, calculateSessionExpiry(now))

SpecCap == Init /\ [][NextCap]_vars

NextLimit ==
    \/ Tick(MaxCapDays)
    \/ \E u \in Users : CreateSession(u, MaxLimitTokens)
    \/ \E t \in 1..nextSession : ExtendSession(t, calculateSessionExpiry(now))
    \/ \E u \in Users, k \in 0..MaxKeep : LimitUserSessions(u, k)

SpecLimit == Init /\ [][NextLimit]_vars

NextRace ==
    \/ Tick(MaxCapDays)
    \/ \E w \in Workers, u \in RaceUsers : CreateSessionSelect(w, u, MaxCapTokens)
    \/ \E w \in Workers : CreateSessionDelete(w)
    \/ \E w \in Workers : CreateSessionInsert(w)

SpecRace == Init /\ [][NextRace]_vars

NextToken ==
    \/ Tick(MaxTokenDays)
    \/ \E request \in TokenRequests : CreateAPIToken(request, MaxTokens)
    \/ \E token \in PresentedSecrets(tokens) : ValidateAPIToken(token)
    \/ \E h \in pendingLastUsed, ok \in BOOLEAN : LastUsedUpdate(h, ok)
    \/ \E id \in 1..nextToken, caller \in Users : RevokeToken(id, caller)
    \/ \E id \in 1..nextToken, updates \in TokenUpdates(now) : UpdateToken(id, updates, NoUser)
    \/ \E id \in 1..nextToken, caller \in {"u2", NoUser} : DeleteToken(id, caller)

SpecToken == Init /\ [][NextToken]_vars

InitView == InitEnv(EnvKeys)

NextView ==
    \/ \E request \in ViewRequests : CreateAPIToken(request, MaxViewTokens)
    \/ \E id \in 1..nextToken :
         \E updates \in ViewUpdates(tokens, id) : UpdateToken(id, updates, NoUser)
    \/ \E id \in 1..(nextToken + 1), u \in Users : ViewToken(id, u, MaxKeyDraws)
    \/ TestEncryption(MaxKeyDraws)

SpecView == InitView /\ [][NextView]_vars

NextGuard ==
    \/ Tick(MaxGuardDays)
    \/ \E request \in GuardRequests : CreateAPIToken(request, MaxGuardTokens)
    \/ \E id \in 1..nextToken : RevokeToken(id, NoUser)
    \/ \E request \in Requests(tokens), options \in GuardOptions : WithAuth(request, options)

SpecGuard == Init /\ [][NextGuard]_vars

NextScope ==
    \/ \E request \in ScopeRequests : CreateAPIToken(request, MaxScopeTokens)
    \/ \E id \in 1..nextToken, updates \in ScopeUpdates, caller \in {"u1", NoUser} :
         UpdateToken(id, updates, caller)
    \/ \E id \in 1..nextToken : RevokeToken(id, NoUser)
    \/ \E request \in ApiRequests(tokens), required \in RequiredLists :
         RequireScopes(request, required)

SpecScope == Init /\ [][NextScope]_vars

NextResolve ==
    \/ Tick(MaxGuardDays)
    \/ \E u \in Users : CreateSession(u, MaxSessionTokens)
    \/ \E request \in GuardRequests : CreateAPIToken(request, MaxGuardTokens)
    \/ \E id \in 1..nextToken : RevokeToken(id, NoUser)
    \/ \E request \in ApiRequests(tokens), c \in 0..nextSession :
         AuthenticateRequest(request, c)

SpecResolve == Init /\ [][NextResolve]_vars

(***************************************************************************)
(* Properties                                                              *)
(***************************************************************************)
\* extendSession's argument in the cleanup specification: a far expiry
CleanupExtends(t) == {t + 4 * SESSION_EXPIRES_IN}

NextCleanup ==
    \/ TickBy(CleanupSteps, MaxCleanupDays)
    \/ \E u \in RaceUsers : CreateSession(u, MaxCleanupTokens)
    \/ \E t \in 1..nextSession : ValidateSession(t)
    \/ \E t \in 1..nextSession, e \in CleanupExtends(now) : ExtendSession(t, e)
    \/ \E eo \in BOOLEAN, io \in BOOLEAN : CleanupSessions(eo, io)
    \/ CleanupExpiredSessions

SpecCleanup == Init /\ [][NextCleanup]_vars

NextSliding ==
    \/ Tick(MaxSlidingDays)
    \/ \E u \in RaceUsers : CreateSession(u, MaxSlidingTokens)
    \/ \E t \in 1..nextSession : ValidateSession(t)
    \/ GetCurrentSession

SpecSliding == Init /\ [][NextSliding]_vars

\* the scopes the monotonicity specification draws its lists from
MonotoneScopes == {"events:read", "events:write", "users:read"}

NextMonotone ==
    \E userScopes \in SUBSET MonotoneScopes, added \in SUBSET MonotoneScopes,
       requiredScopes \in SUBSET MonotoneScopes :
        HasAllScopes(userScopes, added, requiredScopes)

SpecMonotone == Init /\ [][NextMonotone]_vars

CascadeRequests ==
    {[scopes |-> {"events:write"}, user_id |-> u, expires_in_days |-> 0] :
        u \in Users \cup {NoUser}}

NextCascade ==
    \/ \E u \in Users : CreateSession(u, MaxCascadeSessions)
    \/ \E request \in CascadeRequests : CreateAPIToken(request, MaxCascadeTokens)
    \/ \E u \in Users : DeleteUser(u)

SpecCascade == Init /\ [][NextCascade]_vars

NextFault ==
    \/ Tick(MaxFaultDays)
    \/ \E u \in RaceUsers : CreateSession(u, MaxFaultTokens)
    \/ \E t \in 1..nextSession, writeOk \in BOOLEAN : ValidateSessionWrite(t, writeOk)

SpecFault == Init /\ [][NextFault]_vars

\* updateToken's allow_viewing argument
FlagUpdates == {[allow_viewing |-> b] : b \in BOOLEAN}

NextFlag ==
    \/ \E request \in ViewRequests : CreateAPIToken(request, MaxFlagTokens)
    \/ \E id \in 1..nextToken, updates \in FlagUpdates, caller \in {"u1", NoUser} :
         UpdateToken(id, updates, caller)
    \/ \E id \in 1..nextToken, u \in Users : ViewToken(id, u, MaxKeyDraws)
    \/ \E id \in 1..nextToken : GetTokenDisplayInfo(id)

SpecFlag == Init /\ [][NextFlag]_vars

NextRevoke ==
    \/ Tick(MaxRevokeDays)
    \/ \E request \in ViewRequests : CreateAPIToken(request, MaxRevokeTokens)
    \/ \E id \in 1..nextToken, caller \in Callers : RevokeToken(id, caller)

SpecRevoke == Init /\ [][NextRevoke]_vars

SweepRequests ==
    {[scopes |-> {"events:write"}, user_id |-> "u1", expires_in_days |-> d] :
        d \in {0, 15}}

NextSweep ==
    \/ TickBy(CleanupSteps, MaxSweepDays)
    \/ \E request \in SweepRequests : CreateAPIToken(request, MaxSweepTokens)
    \/ \E id \in 1..nextToken : RevokeToken(id, NoUser)
    \/ \E ro \in BOOLEAN, eo \in BOOLEAN : CleanupAPITokens(ro, eo)

SpecSweep == Init /\ [][NextSweep]_vars

NextActivity ==
    \/ Tick(MaxActivityDays)
    \/ \E u \in RaceUsers : CreateSession(u, MaxActivityTokens)
    \/ \E t \in 1..nextSession : ValidateSession(t)
    \/ \E t \in 1..nextSession, hasFields \in BOOLEAN : UpdateSessionDevice(t, hasFields)
    \/ \E u \in RaceUsers, k \in 1..MaxKeep : LimitUserSessions(u, k)

SpecActivity == Init /\ [][NextActivity]_vars

NextOverlap ==
    \/ \E w \in Workers, u \in RaceUsers : CreateSessionSelect(w, u, MaxOverlapTokens)
    \/ \E w \in Workers : CreateSessionDelete(w)
    \/ \E w \in Workers : CreateSessionInsert(w)

SpecOverlap == Init /\ [][NextOverlap]_vars

NextInsert ==
    \/ Tick(MaxCapDays)
    \/ \E u \in RaceUsers, insertOk \in BOOLEAN :
         CreateSessionWrite(u, MaxInsertTokens, insertOk)

SpecInsert == Init /\ [][NextInsert]_vars

NextInterleave ==
    \/ Tick(MaxInterleaveDays)
    \/ \E u \in RaceUsers : CreateSession(u, MaxInterleaveTokens)
    \/ \E w \in Workers, t \in 1..nextSession : ValidateSessionRead(w, t)
    \/ \E w \in Workers : ValidateSessionFinish(w)
    \/ \E t \in 1..nextSession : DeleteSession(t)

SpecInterleave == Init /\ [][NextInterleave]_vars

NextGone ==
    \/ TickBy(CleanupSteps, MaxGoneDays)
    \/ \E u \in Users : CreateSession(u, MaxGoneTokens)
    \/ \E t \in 1..nextSession : ValidateSession(t)
    \/ SignOut
    \/ \E t \in 1..nextSession : DeleteSession(t)
    \/ \E t \in 1..nextSession, u \in Users : DeleteSessionById(t, u)
    \/ \E u \in Users : LimitUserSessions(u, 1)
    \/ CleanupSessions(TRUE, TRUE)

SpecGone == Init /\ [][NextGone]_vars

NextDetached ==
    \/ Tick(MaxDetachedDays)
    \/ \E request \in ViewRequests : CreateAPIToken(request, MaxDetachedTokens)
    \/ \E r \in tokens : ValidateAPIToken(r.token_hash.digestOf)
    \/ \E h \in pendingLastUsed, ok \in BOOLEAN : LastUsedUpdate(h, ok)
    \/ \E id \in 1..nextToken : RevokeToken(id, NoUser)
    \/ \E id \in 1..nextToken : DeleteToken(id, NoUser)

SpecDetached == Init /\ [][NextDetached]_vars

NextHorizon ==
    \/ TickBy(HorizonSteps, MaxHorizonDays)
    \/ \E u \in RaceUsers : CreateSession(u, MaxHorizonTokens)
    \/ \E t \in 1..nextSession : ValidateSession(t)
    \/ \E t \in 1..nextSession, hasFields \in BOOLEAN : UpdateSessionDevice(t, hasFields)
    \/ \E eo \in BOOLEAN, io \in BOOLEAN : CleanupSessions(eo, io)

SpecHorizon == Init /\ [][NextHorizon]_vars

Unauthenticated == [user |-> NoUser, session |-> NoSession]

\* C3: validateSession on the token of a stored session whose expires_at is
\* at or before the current time returns {user: null, session: null}, leaves
\* no session row with that token, and a second call with the same token
\* returns the same unauthenticated result and changes nothing.
C3_ExpiredSessionRejectedAndReaped ==
    (/\ last.op = "validateSession"
     /\ last.pre # NoSession
     /\ last.pre.expires_at <= now)
    => /\ last.user = NoUser
       /\ last.session = NoSession
       /\ \A s \in sessions : s.token # last.token
       /\ validateSession(sessions, last.token, now).result = Unauthenticated
       /\ validateSession(sessions, last.token, now).store = sessions

C3_Witness ==
    /\ last.op = "validateSession"
    /\ last.pre # NoSession
    /\ last.pre.expires_at = now
    /\ last.user = NoUser
    /\ sessions # {}

\* C4: validateSession on a non-expired session whose remaining time is
\* strictly below SESSION_REFRESH_THRESHOLD stores expires_at = now +
\* SESSION_EXPIRES_IN and returns the session with fresh = true and that
\* same new expires_at.
C4_RefreshExtendsToNowPlusTTL ==
    (/\ last.op = "validateSession"
     /\ last.pre # NoSession
     /\ now < last.pre.expires_at
     /\ last.pre.expires_at - now < SESSION_REFRESH_THRESHOLD)
    => /\ \E s \in sessions : /\ s.token = last.token
                              /\ s.expires_at = now + SESSION_EXPIRES_IN
       /\ last.user = last.pre.user_id
       /\ last.session # NoSession
       /\ last.session.fresh = TRUE
       /\ last.session.expires_at = now + SESSION_EXPIRES_IN

C4_Witness ==
    /\ last.op = "validateSession"
    /\ last.pre # NoSession
    /\ last.pre.expires_at - now = 10
    /\ last.session # NoSession
    /\ last.session.fresh = TRUE

\* C6: when a user holds exactly MAX_SESSIONS_PER_USER sessions and
\* createSession runs for that user with nothing else running, the user
\* holds exactly MAX_SESSIONS_PER_USER sessions afterwards, the new session
\* among them, and the single session removed is one with the oldest
\* last_activity.
C6_CapKeptEvictingOldestActivity ==
    (last.op = "createSession" /\ last.before = MAX_SESSIONS_PER_USER)
    => /\ Cardinality(UserSessions(sessions, last.user)) = MAX_SESSIONS_PER_USER
       /\ last.session \in sessions
       /\ Cardinality(last.evicted) = 1
       /\ \A e \in last.evicted :
             /\ e.user_id = last.user
             /\ \A k \in UserSessions(sessions, last.user) \ {last.session} :
                   e.last_activity <= k.last_activity

C6_Witness ==
    /\ last.op = "createSession"
    /\ last.before = MAX_SESSIONS_PER_USER
    /\ \E e \in last.evicted, k \in UserSessions(sessions, last.user) \ {last.session} :
          e.last_activity < k.last_activity /\ e.id > k.id

\* C7: the session cap is a soft bound under concurrency: an insert leaves
\* the user with more than MAX_SESSIONS_PER_USER sessions only when its
\* createSession call overlapped another one, and then with exactly
\* MAX_SESSIONS_PER_USER + 1; that state is reachable (C7_Witness).
C7_CapExceededOnlyByOverlap ==
    (/\ last.op = "createSession:insert"
     /\ Cardinality(UserSessions(sessions, last.user)) > MAX_SESSIONS_PER_USER)
    => /\ last.overlapped # {}
       /\ Cardinality(UserSessions(sessions, last.user)) = MAX_SESSIONS_PER_USER + 1

C7_Witness ==
    /\ last.op = "createSession:insert"
    /\ last.bothLimitedBeforeInsert
    /\ Cardinality(UserSessions(sessions, last.user)) = MAX_SESSIONS_PER_USER + 1

\* C8: every write of a session's expires_at puts it strictly in the future
\* of the moment of the write: at creation by createSession, after
\* validateSession's refresh, and after extendSession(token, newExpiresAt).
C8_ExpiresAtWrittenInFuture ==
    /\ (last.op = "createSession" => last.session.expires_at > now)
    /\ (last.op = "validateSession" /\ last.session # NoSession
            /\ last.session.fresh
        => \A s \in sessions : s.token = last.token => s.expires_at > now)
    /\ (last.op = "extendSession" /\ last.pre # NoSession
        => \A s \in sessions : s.token = last.token => s.expires_at > now)

\* C9: no call to deleteUserSession, deleteSessionByToken or
\* deleteSessionById made for authenticated user U deletes a session whose
\* user_id is different from U.
C9_OnlyOwnerDeletes ==
    (/\ last.op \in {"deleteUserSession", "deleteSessionByToken", "deleteSessionById"}
     /\ last.caller # NoUser)
    => \A s \in last.deleted : s.user_id = last.caller

\* C1: validateAPIToken called with the secret of a stored token returns
\* valid exactly when that token's revoked_at is null and its expires_at is
\* null or later than now; revoked, or with now >= expires_at, the result is
\* invalid although the hash matches.
C1_ValidExactlyInsideWindow ==
    last.op = "validateAPIToken"
    => \A r \in tokens :
         verifyToken(last.token, r.token_hash)
         => /\ last.result.valid
                <=> /\ r.revoked_at = NoTime
                    /\ r.expires_at = NoTime \/ now < r.expires_at
            /\ last.result.valid => last.result.token = r

C1_Witness ==
    /\ last.op = "validateAPIToken"
    /\ ~last.result.valid
    /\ \E r \in tokens :
         /\ verifyToken(last.token, r.token_hash)
         /\ r.revoked_at = NoTime
         /\ r.expires_at = now

\* C2: the handler wrapped by withAuth with requireScope S runs only for a
\* request whose presented API token validateAPIToken accepts and whose
\* scopes contain S; nothing the client writes into request headers stands
\* in for that token.
C2_HandlerOnlyForValidatedScopedToken ==
    (last.op = "withAuth" /\ last.invoked)
    => \E r \in authenticateAPIRequest(tokens, last.request, now) :
         r.valid /\ last.options.requireScope \in r.scopes

\* C5: once a token's revoked_at is set, no step of revokeToken, updateToken,
\* validateAPIToken or a last-used update makes it null again, and no
\* validateAPIToken call returns valid for that token.
C5_RevocationIsTerminal ==
    [][\A r \in tokens :
         r.revoked_at # NoTime
         => /\ \A r2 \in tokens' : r2.id = r.id => r2.revoked_at # NoTime
            /\ (last'.op = "validateAPIToken" /\ last'.result.valid)
               => last'.result.token.id # r.id]_vars

C5_Witness ==
    /\ last.op = "updateTokenLastUsed"
    /\ last.ok
    /\ \E r \in tokens :
         /\ r.revoked_at # NoTime
         /\ r.last_used_at > r.revoked_at

C11_IssuanceRejectsEmptyOrUnknownScopes ==
    last.op = "createAPIToken"
    => /\ (last.request.scopes = {} \/ last.request.scopes \ AVAILABLE_SCOPES # {})
          => ~last.ok /\ tokens = last.before
       /\ last.ok
          => /\ last.tokenData.scopes = last.request.scopes
             /\ tokens = last.before \cup {last.tokenData}

C11_Witness ==
    /\ last.op = "createAPIToken"
    /\ last.request.scopes \cap AVAILABLE_SCOPES # {}
    /\ last.request.scopes \ AVAILABLE_SCOPES # {}
    /\ ~last.ok
    /\ tokens # {}
    /\ tokens = last.before

\* C12: every stored API token carries a non-empty scope set whose members
\* all belong to AVAILABLE_SCOPES, whatever createAPIToken and updateToken
\* calls were made, updateToken with an empty scopes list among them.
C12_StoredScopesNonEmptyAndKnown ==
    \A r \in tokens : r.scopes # {} /\ r.scopes \ AVAILABLE_SCOPES = {}

\* C13: updateToken called with a scopes list that holds any scope outside
\* AVAILABLE_SCOPES throws and leaves the token table as it was, and
\* createAPIToken rejects the same list.
C13_UpdateRejectsUnknownScopes ==
    (/\ last.op = "updateToken"
     /\ "scopes" \in DOMAIN last.updates
     /\ last.updates.scopes \ AVAILABLE_SCOPES # {})
    => /\ ~last.ok
       /\ tokens = last.before
       /\ ~scopesAccepted(last.updates.scopes)

C13_Witness ==
    /\ last.op = "updateToken"
    /\ last.pre # NoRow
    /\ last.caller = NoUser
    /\ "scopes" \in DOMAIN last.updates
    /\ last.updates.scopes \cap AVAILABLE_SCOPES # {}
    /\ last.updates.scopes \ AVAILABLE_SCOPES # {}
    /\ ~last.ok
    /\ last.pre \in tokens

\* C14: hasAllScopes(tokenScopes, required) is true exactly when required is
\* a subset of tokenScopes, and the guard built by requireScopes(...required)
\* returns a valid result only for a request whose presented token
\* validateAPIToken accepts and whose scopes hold every required scope.
C14_GuardNeedsEveryRequiredScope ==
    last.op = "requireScopes"
    => /\ last.auth \in authenticateAPIRequest(tokens, last.request, now)
       /\ last.auth.valid
          => /\ hasAllScopes(last.auth.scopes, last.required)
                 <=> last.required \subseteq last.auth.scopes
             /\ last.result.valid <=> last.required \subseteq last.auth.scopes
       /\ last.result.valid => last.auth.valid /\ last.result = last.auth

C14_Witness ==
    /\ last.op = "requireScopes"
    /\ last.auth.valid
    /\ last.required \cap last.auth.scopes # {}
    /\ last.required \ last.auth.scopes # {}
    /\ ~last.result.valid

\* C15: authenticateRequest resolves a request to exactly one of none,
\* session or api_token: api_token when a valid API token is presented, and,
\* when none is and the request carries the cookie of a valid session, a
\* session context for that session's user.
C15_FallsBackToCookieSession ==
    last.op = "authenticateRequest"
    => /\ last.authContext.type \in {"none", "session", "api_token"}
       /\ last.apiAuth.valid => last.authContext.type = "api_token"
       /\ (/\ ~last.apiAuth.valid
           /\ validateSession(sessions, last.cookie, now).result.user # NoUser)
          => /\ last.authContext.type = "session"
             /\ last.authContext.user_id
                  = validateSession(sessions, last.cookie, now).result.user

\* C16: validateAPIToken called with the correct secret of a revoked token
\* returns an invalid result that marks the denial as a revocation, a result
\* different from the one a secret matching no token gets.
C16_RevokedDenialIsDistinguishable ==
    (/\ last.op = "validateAPIToken"
     /\ \E r \in tokens :
          verifyToken(last.token, r.token_hash) /\ r.revoked_at # NoTime)
    => /\ ~last.result.valid
       /\ last.result \notin
            validateAPIToken(tokens,
                             [lit |-> last.token.lit, ts |-> last.token.ts, rnd |-> 0],
                             now)
       /\ last.result \notin validateAPIToken({}, last.token, now)

\* C17: validateSession on a session whose remaining time is at or above
\* SESSION_REFRESH_THRESHOLD returns it with fresh = false and its stored
\* expires_at, and leaves the sessions table exactly as it was; a validation
\* right after creation extends nothing.
C17_NoRefreshAtOrAboveThreshold ==
    [][(/\ last'.op = "validateSession"
        /\ last'.pre # NoSession
        /\ last'.pre.expires_at - now >= SESSION_REFRESH_THRESHOLD)
       => /\ sessions' = sessions
          /\ last'.pre \in sessions'
          /\ last'.user = last'.pre.user_id
          /\ last'.session.fresh = FALSE
          /\ last'.session.expires_at = last'.pre.expires_at]_vars

C17_Witness ==
    /\ last.op = "validateSession"
    /\ last.pre # NoSession
    /\ last.pre.expires_at - now = SESSION_REFRESH_THRESHOLD
    /\ last.session # NoSession
    /\ last.session.fresh = FALSE
    /\ last.pre \in sessions

\* C18: deleting a session that does not exist (never created, or already
\* deleted), by id or by token, completes without error and deletes
\* nothing, for deleteSession, deleteSessionById and for an authenticated
\* caller of deleteUserSession alike.
C18_DeletingAbsentSessionIsNoError ==
    (/\ last.op \in {"deleteSessionById", "deleteSessionByToken", "deleteUserSession"}
     /\ last.caller # NoUser
     /\ \A s \in sessions \cup last.deleted : s.id # last.requested)
    => last.ok /\ last.deleted = {}

\* C19: deleteUserSession and deleteSessionByToken report
\* deletedCurrentSession = true and clear the session cookie exactly when
\* the deleted session's token is the caller's current session token;
\* otherwise they report false and the cookie stays.
C19_CurrentSessionDetectedByTokenMatch ==
    (/\ last.op \in {"deleteSessionByToken", "deleteUserSession"}
     /\ last.ok)
    => /\ last.deletedCurrentSession <=> last.target = last.current
       /\ last.deletedCurrentSession => cookie = NoToken
       /\ ~last.deletedCurrentSession => cookie = last.current /\ cookie # NoToken

C19_Witness ==
    /\ last.op = "deleteUserSession"
    /\ last.ok
    /\ last.deleted # {}
    /\ ~last.deletedCurrentSession
    /\ last.target # last.current
    /\ cookie = last.current

\* C20: after limitUserSessions(user, maxKeep) has run on its own, the user
\* holds min(previous count, maxKeep) of the sessions held before, every
\* retained session has a last_activity at least as recent as every deleted
\* one, and the sessions of every other user are unchanged.
C20_LimitKeepsMostRecentlyActive ==
    last.op = "limitUserSessions"
    => LET prev == UserSessions(last.before, last.user)
           kept == UserSessions(sessions, last.user)
       IN /\ kept \subseteq prev
          /\ Cardinality(kept) = IF Cardinality(prev) < last.maxSessions
                                 THEN Cardinality(prev) ELSE last.maxSessions
          /\ \A k \in kept, d \in prev \ kept : k.last_activity >= d.last_activity
          /\ sessions \ kept = last.before \ prev

C20_Witness ==
    /\ last.op = "limitUserSessions"
    /\ last.maxSessions > 0
    /\ Cardinality(UserSessions(last.before, last.user)) > last.maxSessions
    /\ last.before \ UserSessions(last.before, last.user) # {}
    /\ \E k \in UserSessions(sessions, last.user),
          d \in last.before \ sessions : k.last_activity > d.last_activity


C23_RoundTripRecoversSecret ==
    /\ (last.op = "testEncryption" /\ envKey # "malformed") => last.result
    /\ (/\ last.op = "viewToken"
        /\ last.pre # NoRow
        /\ last.pre.user_id = last.requester
        /\ last.pre.token_encrypted # NoEnvelope
        /\ last.pre.token_encrypted =
             encryptToken(last.pre.token_hash.digestOf,
                          [ok |-> TRUE,
                           key |-> last.pre.token_encrypted.encrypted.key]).data)
       => /\ last.result.ok
          /\ last.result.token = last.pre.token_hash.digestOf

\* C24: the codec key is loaded once per process and reused: every
\* encryptToken and decryptToken call of the process uses the same key, so
\* all stored envelopes are sealed under one key, the key a decryption
\* loads is that key, and testEncryption's two calls agree.
C24_OneKeyPerProcess ==
    /\ (last.op = "testEncryption" /\ envKey # "malformed")
       => last.encryptKey = last.decryptKey
    /\ \A r1, r2 \in tokens :
          (r1.token_encrypted # NoEnvelope /\ r2.token_encrypted # NoEnvelope)
          => r1.token_encrypted.encrypted.key = r2.token_encrypted.encrypted.key
    /\ (/\ last.op = "viewToken"
        /\ last.pre # NoRow
        /\ isValidEncryptedData(last.pre.token_encrypted)
        /\ last.key.ok)
       => \A r \in tokens :
             r.token_encrypted # NoEnvelope
             => r.token_encrypted.encrypted.key = last.key.key

\* C25: an envelope counts as structurally valid only when ciphertext,
\* nonce, authentication tag and algorithm identifier are all present and
\* size-correct; viewing a token whose envelope is structurally invalid is
\* reported as status 'invalid', and status 'error' is reported only for a
\* structurally valid envelope that fails to decrypt.
C25_InvalidEnvelopeReportedInvalid ==
    (last.op = "viewToken" /\ last.pre # NoRow)
    => LET e == last.pre.token_encrypted
           allFour == /\ e # NoEnvelope
                      /\ e.iv = IV_HEX_LENGTH
                      /\ e.tag = TAG_HEX_LENGTH
                      /\ e.algorithm # NoAlgorithm
       IN /\ isValidEncryptedData(e) => allFour
          /\ ~allFour => last.decryption.encryption_status = "invalid"
          /\ last.decryption.encryption_status = "error" => allFour

\* C26: bucket collisions are tolerated.  For an active token, validating
\* its own secret returns valid with that token's record whatever other
\* tokens share its lookup prefix and in whatever order the candidates are
\* scanned; no other candidate's record is ever returned for a secret.
C26_BucketCollisionsTolerated ==
    last.op = "validateAPIToken"
    => /\ \A r \in tokens :
            (/\ verifyToken(last.token, r.token_hash)
             /\ r.revoked_at = NoTime
             /\ r.expires_at = NoTime \/ now < r.expires_at)
            => \A res \in validateAPIToken(tokens, last.token, now) :
                  res.valid /\ res.token = r
       /\ \A res \in validateAPIToken(tokens, last.token, now) :
            res.valid => verifyToken(last.token, res.token.token_hash)

C26_Witness ==
    /\ last.op = "validateAPIToken"
    /\ last.result.valid
    /\ LET bucket == getTokensByPrefix(tokens, extractTokenPrefix(last.token))
       IN /\ Cardinality(bucket) >= 2
          /\ Cardinality(candidateOrders(bucket)) >= 2
          /\ \E other \in bucket :
                /\ other # last.result.token
                /\ ~tokenExpired(other.expires_at, now)

\* C27: the last-used update is detached from validation.  validateAPIToken
\* on an active token returns valid without waiting for the update (the
\* update is still pending and the table untouched when it returns), and
\* when the update later completes, successfully or not, every secret
\* validates exactly as it did before.
C27_ValidationIndependentOfLastUsedUpdate ==
    [][/\ (/\ last'.op = "validateAPIToken"
           /\ \E r \in tokens :
                 /\ verifyToken(last'.token, r.token_hash)
                 /\ r.revoked_at = NoTime
                 /\ r.expires_at = NoTime \/ now < r.expires_at)
          => /\ last'.result.valid
             /\ tokens' = tokens
             /\ last'.result.token.token_hash \in pendingLastUsed'
       /\ last'.op = "updateTokenLastUsed"
          => \A s \in PresentedSecrets(tokens) :
                {res.valid : res \in validateAPIToken(tokens', s, now')}
                  = {res.valid : res \in validateAPIToken(tokens, s, now)}]_vars

C27_Witness ==
    /\ last.op = "updateTokenLastUsed"
    /\ ~last.ok
    /\ \E r \in tokens :
          /\ r.token_hash = last.tokenHash
          /\ r.last_used_at = NoTime
          /\ \A res \in validateAPIToken(tokens, r.token_hash.digestOf, now) : res.valid

\* C28: hasAllScopes is monotonic in the granted scopes: if
\* hasAllScopes(S, R) holds then hasAllScopes(S \cup T, R) holds for every T,
\* and likewise every required scope hasRequiredScope grants for S it
\* grants for S \cup T.
C28_HasAllScopesMonotonic ==
    last.op = "hasAllScopes"
    => /\ last.before => last.after
       /\ last.grantedBefore \subseteq last.grantedAfter

C28_Witness ==
    /\ last.op = "hasAllScopes"
    /\ last.requiredScopes # {}
    /\ last.added \ last.userScopes # {}
    /\ last.before
    /\ last.after

\* C29: referential integrity.  Every stored session and every API token
\* that has an owner refers to an existing user; deleting a user removes
\* all of that user's sessions and owned tokens and leaves ownerless tokens
\* and every other user's sessions and tokens unchanged.
C29_SessionsAndTokensFollowTheirUser ==
    /\ \A s \in sessions : s.user_id \in users
    /\ \A r \in tokens : r.user_id # NoUser => r.user_id \in users
    /\ last.op = "deleteUser"
       => /\ last.user \notin users
          /\ sessions = {s \in last.sessions : s.user_id # last.user}
          /\ tokens = {r \in last.tokens : r.user_id # last.user}

C29_Witness ==
    /\ last.op = "deleteUser"
    /\ \E s \in last.sessions \ sessions : s.user_id = last.user
    /\ \E r \in last.tokens \ tokens : r.user_id = last.user
    /\ \E s \in sessions : s.user_id # last.user
    /\ \E r \in tokens : r.user_id = NoUser

\* C30: when validateSession refreshes a session and the store write that
\* extends expires_at fails, validateSession still returns the session's
\* user and the session, raises nothing, and the stored row stays as it was.
C30_FailedRefreshWriteStillAuthenticates ==
    (/\ last.op = "validateSession"
     /\ last.pre # NoSession
     /\ ~last.writeOk
     /\ ~sessionExpired(now, last.pre.expires_at)
     /\ refreshDue(now, last.pre.expires_at))
    => /\ last.user = last.pre.user_id
       /\ last.session # NoSession
       /\ last.session.token = last.token
       /\ last.pre \in sessions

C30_Witness ==
    /\ last.op = "validateSession"
    /\ last.pre # NoSession
    /\ ~last.writeOk
    /\ refreshDue(now, last.pre.expires_at)
    /\ last.user # NoUser
    /\ last.session.fresh
    /\ sessionByToken(sessions, last.token).expires_at = last.pre.expires_at

\* C31: viewToken returns a secret only for a token whose allow_viewing flag
\* is true, the tokens getTokenDisplayInfo marks can_view; a token whose
\* allow_viewing has been set to false is never decrypted and returned.
C31_SecretOnlyWhenViewingAllowed ==
    (last.op = "viewToken" /\ last.pre # NoRow /\ last.result.ok)
    => /\ last.pre.allow_viewing
       /\ getTokenDisplayInfo(last.pre).can_view

\* C32: revoking is idempotent on the token record: revoking a token that
\* is already revoked leaves its revoked_at at the value the first
\* revocation set.
C32_RevokedAtKeptOnSecondRevocation ==
    (/\ last.op = "revokeToken"
     /\ last.pre # NoRow
     /\ last.pre.revoked_at # NoTime)
    => tokenById(tokens, last.id).revoked_at = last.pre.revoked_at

\* C33: cleanupAPITokens never deletes an active token (revoked_at null and
\* not expired): a token it deletes was either revoked more than 30 days
\* before now or has an expires_at before now.
C33_CleanupSparesActiveTokens ==
    last.op = "cleanupAPITokens"
    => /\ tokens \subseteq last.before
       /\ \A d \in last.before \ tokens :
             \/ d.revoked_at # NoTime /\ d.revoked_at < now - 30
             \/ d.expires_at # NoTime /\ d.expires_at < now
       /\ \A r \in last.before :
             (r.revoked_at = NoTime /\ (r.expires_at = NoTime \/ now < r.expires_at))
             => r \in tokens

C33_Witness ==
    /\ last.op = "cleanupAPITokens"
    /\ \E d \in last.before \ tokens : d.revoked_at # NoTime
    /\ \E r \in tokens : r.revoked_at # NoTime /\ r.revoked_at = now - 30

\* C34: a session's last_activity changes only when its row is updated, by
\* an expiry extension or by updateSessionDevice; a validateSession call
\* that succeeds with at least the refresh threshold still to run writes
\* nothing, so it leaves last_activity, and with it the sessions
\* limitUserSessions would evict, as they were.
C34_LastActivityChangesOnlyOnRowUpdate ==
    [][/\ \A s \in sessions, s2 \in sessions' :
             (s2.token = s.token /\ s2.last_activity # s.last_activity)
             => \/ /\ last'.op = "validateSession"
                   /\ last'.token = s.token
                   /\ last'.session # NoSession
                   /\ last'.session.fresh
                \/ /\ last'.op = "updateSessionDevice"
                   /\ last'.token = s.token
       /\ (/\ last'.op = "validateSession"
           /\ last'.pre # NoSession
           /\ last'.user # NoUser
           /\ last'.pre.expires_at - now >= SESSION_REFRESH_THRESHOLD)
          => /\ sessions' = sessions
             /\ \A u \in Users, k \in 0..MAX_SESSIONS_PER_USER :
                   sessionsToDelete(sessions', u, k) = sessionsToDelete(sessions, u, k)]_vars

C34_Witness ==
    /\ last.op = "validateSession"
    /\ last.user # NoUser
    /\ ~last.session.fresh
    /\ now > last.pre.last_activity
    /\ \E s \in sessions :
          /\ s.user_id = last.user
          /\ s.last_activity > last.pre.last_activity
    /\ \A D \in sessionsToDelete(sessions, last.user, 1) : last.pre \in D

\* C35: a createSession call that overlaps no other leaves its user with at
\* most MAX_SESSIONS_PER_USER sessions, and one that overlaps k - 1 others
\* with at most MAX_SESSIONS_PER_USER - 1 + k; with at most as many calls
\* in flight as there are workers, no reachable state holds more than
\* MAX_SESSIONS_PER_USER - 1 + that many sessions for a user.
C35_CapBoundedByOverlap ==
    /\ \A u \in Users :
          Cardinality(UserSessions(sessions, u))
             <= MAX_SESSIONS_PER_USER - 1 + Cardinality(Workers)
    /\ last.op = "createSession:insert"
       => Cardinality(UserSessions(sessions, last.user))
             <= MAX_SESSIONS_PER_USER - 1 + (1 + Cardinality(last.overlapped))

C35_Witness ==
    /\ last.op = "createSession:insert"
    /\ last.overlapped # {}
    /\ nextSession = MaxOverlapTokens
    /\ Cardinality(UserSessions(sessions, last.user)) = MAX_SESSIONS_PER_USER + 1

\* C36: a createSession call that fails, its insert returning an error and
\* the call throwing, leaves the user's set of existing sessions exactly as
\* it was before the call.
C36_FailedCreateLeavesSessions ==
    last.op = "createSession failed"
    => UserSessions(sessions, last.user) = UserSessions(last.before, last.user)

\* C37: a validateSession refresh that interleaves with a delete of the same
\* session, the delete landing after validate's read and before its
\* extension write, never re-creates the session record: a session token
\* that has been issued and has no row keeps having no row.
C37_DeletedSessionStaysAbsent ==
    [][\A t \in 1..nextSession :
          (\A s \in sessions : s.token # t) => (\A s \in sessions' : s.token # t)]_vars

C37_Witness ==
    /\ last.op = "validateSession:finish"
    /\ last.pre = NoSession
    /\ last.session # NoSession
    /\ last.session.fresh
    /\ \A s \in sessions : s.token # last.token

\* C38: once a session has been deleted, by signOut, deleteSession,
\* deleteSessionById, eviction, eager expiry deletion or cleanup, every later
\* validateSession with its token returns unauthenticated, whatever
\* operations run in between: in every step a token without a row keeps
\* having none, and a validation of it made in that step is refused.
C38_DeletedSessionNeverValidatesAgain ==
    [][\A t \in 1..nextSession :
          (\A s \in sessions : s.token # t)
          => /\ \A s \in sessions' : s.token # t
             /\ (last'.op = "validateSession" /\ last'.token = t)
                => (last'.user = NoUser /\ last'.session = NoSession)]_vars

C38_Witness ==
    /\ last.op = "validateSession"
    /\ last.token >= 1
    /\ last.pre = NoSession
    /\ last.user = NoUser
    /\ \E s \in sessions : s.token > last.token /\ now < s.expires_at

\* C39: the detached last-used write changes only last_used_at, and only on
\* the row with its token hash: in whatever order it runs with revokeToken
\* or deleteToken on the same token, it leaves every other column, revoked_at
\* among them, as it finds it, and it never makes a row for a deleted token.
C39_LastUsedWriteTouchesOnlyLastUsed ==
    [][last'.op = "updateTokenLastUsed"
       => /\ {r.id : r \in tokens'} = {r.id : r \in tokens}
          /\ \A r \in tokens :
                \/ r \in tokens'
                \/ /\ r.token_hash = last'.tokenHash
                   /\ [r EXCEPT !.last_used_at = now] \in tokens']_vars

C39_Witness ==
    /\ last.op = "updateTokenLastUsed"
    /\ last.ok
    /\ \A r \in tokens : r.token_hash # last.tokenHash
    /\ \E r \in tokens : r.revoked_at # NoTime /\ r.last_used_at > r.revoked_at

\* C40: in every state reached through createSession, validateSession and
\* updateSessionDevice under one clock, each session has expires_at <=
\* last_activity + SESSION_EXPIRES_IN; so every session the 90-day
\* inactivity rule of cleanupSessions would delete is already expired, and
\* the inactivity delete removes nothing the expiry delete has left.
C40_InactiveSessionsAreAlreadyExpired ==
    /\ \A s \in sessions :
          /\ s.expires_at <= s.last_activity + SESSION_EXPIRES_IN
          /\ s.last_activity < now - 90 => s.expires_at < now
    /\ (last.op = "cleanupSessions" /\ last.expiredOk)
       => sessions = {s \in last.before : ~(s.expires_at < now)}

C40_Witness ==
    /\ last.op = "cleanupSessions"
    /\ last.expiredOk /\ last.inactiveOk
    /\ \E d \in last.before \ sessions :
          /\ d.last_activity < now - 90
          /\ d.last_activity > d.created_at
          /\ d.expires_at < d.last_activity + SESSION_EXPIRES_IN
====
